---- MODULE Spec2Model ----
(***************************************************************************)
(* Verification model of onchain-monitor: the dedup store                  *)
(* (internal/dedup), the liquidation collector (internal/collector) and    *)
(* the polling engine (internal/monitor/engine.go) with the unsubscribe    *)
(* handler (internal/handler/subscriptions.go).                            *)
(*                                                                         *)
(* Strings that the code builds with fmt.Sprintf are sequences of tokens:  *)
(* every decimal digit and every separator is a token of its own, a name   *)
(* (source, metric, direction) is one token.  Numbers carry one decimal    *)
(* place: the integer v stands for v/10.                                   *)
(***************************************************************************)
EXTENDS Integers, Sequences, FiniteSets, TLC

VARIABLES
    redis,        \* dedup.Deduplicator: the set of keys stored in Redis
    redisUp,      \* whether Redis answers (false: every command errors)
    ddLast,       \* the last Deduplicator call made through the API
    ddPrev,       \* the Deduplicator call before ddLast
    buffer,       \* Collector.buffer: events not yet written, in order
    liqEvents,    \* table liquidation_events, in insertion order
    ctxDone,      \* the shared context has been cancelled
    runPc,        \* where Collector.Run is
    backoff,      \* Collector.Run: the reconnect delay in seconds
    flushPc,      \* per caller of Collector.flush: where it is
    flushBatch,   \* per caller of Collector.flush: its local slice events
    accepted,     \* number of events handleMessage has appended so far
    failedFlushes,\* number of batch inserts that returned an error so far
    cfg,          \* the deployment: registered sources and the inputs offered
    subs,         \* table subscriptions joined with users and events, in row order
    snapHistory,  \* Engine.snapHistory: per source the retained snapshots
    merklOpps,    \* Merkl.opps: the opportunities of the last FetchSnapshot
    eng,          \* Engine.Run / pollAll / sendDueReports: locals and position
    clock,        \* wall clock in UTC+8: day number and hour
    trace,        \* per subscription id: the outcome of each rule evaluation
    outbox,       \* the messages alertFn has delivered, in order
    unsubbed,     \* chat ids for which Unsubscribe has cleared dedup keys
    mpResult,     \* what the last Store.QueryMaxPain call returned
    entries,      \* MaxPain.entries: the cached entries by symbol and interval
    sources,      \* Engine.sources while sources are being registered
    sourceNames,  \* what the last Engine.SourceNames call returned
    cleanupPc,    \* where Collector.cleanupLoop is
    abandoned,    \* FetchSnapshot goroutines whose fetchWithTimeout timed out
    mu            \* who holds Engine.mu and Collector.mu

ddVars == <<redis, redisUp, ddLast, ddPrev>>

colVars == <<buffer, liqEvents, ctxDone, runPc, backoff, flushPc, flushBatch,
             accepted, failedFlushes>>

colLocal == <<buffer, liqEvents, runPc, backoff, flushPc, flushBatch,
              accepted, failedFlushes>>

engVars == <<cfg, subs, snapHistory, merklOpps, eng, clock, trace, outbox,
             unsubbed>>

otherVars == <<mpResult, entries, sources, sourceNames, cleanupPc, abandoned,
               mu>>

vars == <<redis, redisUp, ddLast, ddPrev, buffer, liqEvents, ctxDone, runPc,
          backoff, flushPc, flushBatch, accepted, failedFlushes,
          cfg, subs, snapHistory, merklOpps, eng, clock, trace, outbox,
          unsubbed, mpResult, entries, sources, sourceNames, cleanupPc,
          abandoned, mu>>

----------------------------------------------------------------------------
(* Text helpers                                                            *)

Digits == <<"0", "1", "2", "3", "4", "5", "6", "7", "8", "9">>

\* fmt verb %d for a non-negative integer
RECURSIVE Itoa(_)
Itoa(n) == IF n < 10 THEN <<Digits[n + 1]>>
           ELSE Itoa(n \div 10) \o <<Digits[(n % 10) + 1]>>

\* Redis glob (SCAN ... MATCH pattern): "*" any run of tokens, "?" one token
RECURSIVE GlobMatch(_, _)
GlobMatch(p, s) ==
    IF p = <<>> THEN s = <<>>
    ELSE IF Head(p) = "*"
         THEN GlobMatch(Tail(p), s) \/ (s # <<>> /\ GlobMatch(p, Tail(s)))
         ELSE /\ s # <<>>
              /\ (Head(p) = "?" \/ Head(p) = Head(s))
              /\ GlobMatch(Tail(p), Tail(s))

----------------------------------------------------------------------------
(* internal/dedup/dedup.go                                                 *)

AlreadySentFailOpen(key) == IF redisUp THEN key \in redis ELSE FALSE

\* AlreadySent: EXISTS key; an error answers true (fail closed)
AlreadySent(key) == IF redisUp THEN key \in redis ELSE TRUE

RecordDropped(key) == redis

\* Record: SET key "1" with no expiry; the error is not looked at.
\* The value is the key set after the call.
Record(key) == IF redisUp THEN redis \cup {key} ELSE redis

ClearKept(key) == redis

\* Clear: DEL key; the error is not looked at
Clear(key) == IF redisUp THEN redis \ {key} ELSE redis

ClearByPatternFirstOnly(pattern) ==
    IF redisUp /\ (\E k \in redis : GlobMatch(pattern, k))
    THEN redis \ {CHOOSE k \in redis : GlobMatch(pattern, k)}
    ELSE redis

\* ClearByPattern: SCAN MATCH pattern, DEL every key returned
ClearByPattern(pattern) ==
    IF redisUp THEN {k \in redis : ~GlobMatch(pattern, k)} ELSE redis

\* no Deduplicator call has been made yet
NoCall == [op |-> "none", key |-> <<>>, up |-> TRUE, ret |-> FALSE,
           before |-> {}, seen |-> {}]

NoPrev == [op |-> "none", key |-> <<>>, up |-> TRUE]

----------------------------------------------------------------------------
(* internal/collector: the liquidation collector                           *)

reconnectBase == 2

reconnectMax == 60

\* how many events handleMessage may accept in one run of the model
MaxEvents == 3

\* how many batch inserts may fail in one run of the model
MaxFlushFails == 2

\* sync.RWMutex of the engine and sync.Mutex of the collector, nobody inside:
\* w the goroutine holding the lock for writing, r those holding RLock
NoLocks == [engine |-> [w |-> {}, r |-> {}], collector |-> [w |-> {}, r |-> {}]]

\* the two callers of Collector.flush: flushLoop and the shutdown path of Run
Flushers == {"ticker", "run"}

MinUncapped(a, b) == a

\* math.Min
Min(a, b) == IF a < b THEN a ELSE b

\* websocket frames: e is the event type ("malformed": json.Unmarshal fails),
\* S the order side, ap/p/z/q the numbers parseFloat reads from the average
\* price, price, filled quantity and quantity strings (0: empty or no number)
Messages ==
    [e : {"forceOrder", "other", "malformed"}, s : {"btcusdt"},
     S : {"SELL", "BUY", "HOLD"},
     ap : {-1, 0, 2}, p : {0, 2}, z : {0, 1}, q : {-1, 0, 1}]

\* strings.TrimSuffix(strings.ToUpper(symbol), "USDT")
TrimSymbol(sym) == IF sym = "btcusdt" THEN "BTC" ELSE "ETH"

\* a handler whose switch on the order side has no default return
ParseMessageAnySide(m, seq) ==
    LET price == IF m.ap <= 0 THEN m.p ELSE m.ap
        qty   == IF m.z <= 0 THEN m.q ELSE m.z
    IN  IF m.e # "forceOrder" THEN <<>>
        ELSE IF price <= 0 \/ qty <= 0 THEN <<>>
        ELSE <<[seq |-> seq, Symbol |-> TrimSymbol(m.s),
                Side |-> IF m.S = "SELL" THEN "LONG" ELSE "SHORT",
                Price |-> price, Quantity |-> qty, USDValue |-> price * qty]>>

\* handleMessage up to the append: the events a frame yields, none or one
\* (seq numbers the accepted events in arrival order)
ParseMessage(m, seq) ==
    LET price == IF m.ap <= 0 THEN m.p ELSE m.ap
        qty   == IF m.z <= 0 THEN m.q ELSE m.z
    IN  IF m.e # "forceOrder" THEN <<>>
        ELSE IF price <= 0 \/ qty <= 0 THEN <<>>
        ELSE IF m.S \notin {"SELL", "BUY"} THEN <<>>
        ELSE <<[seq |-> seq, Symbol |-> TrimSymbol(m.s),
                Side |-> IF m.S = "SELL" THEN "LONG" ELSE "SHORT",
                Price |-> price, Quantity |-> qty, USDValue |-> price * qty]>>

\* Collector.handleMessage, called by connectAndRead for every frame read
handleMessage(m) ==
    /\ runPc = "connected"
    /\ accepted < MaxEvents
    /\ LET evs == ParseMessage(m, accepted + 1)
       IN  /\ buffer' = buffer \o evs
           /\ accepted' = accepted + Len(evs)
    /\ UNCHANGED <<liqEvents, ctxDone, runPc, backoff, flushPc, flushBatch,
                   failedFlushes>>
    /\ UNCHANGED ddVars
    /\ UNCHANGED engVars
    /\ UNCHANGED otherVars

\* the context passed to every long-lived task is cancelled
Cancel ==
    /\ ~ctxDone
    /\ ctxDone' = TRUE
    /\ UNCHANGED <<buffer, liqEvents, runPc, backoff, flushPc, flushBatch,
                   accepted, failedFlushes>>
    /\ UNCHANGED ddVars
    /\ UNCHANGED engVars
    /\ UNCHANGED otherVars

\* a flush that copies the buffer and leaves it in place
FlushTakeCopy(f) ==
    IF buffer = <<>>
    THEN /\ flushPc' = [flushPc EXCEPT ![f] = "return"]
         /\ UNCHANGED <<buffer, flushBatch>>
    ELSE /\ flushBatch' = [flushBatch EXCEPT ![f] = buffer]
         /\ buffer' = buffer
         /\ flushPc' = [flushPc EXCEPT ![f] = "insert"]

\* Collector.flush, first critical section: take the buffer, leave a new one
FlushTake(f) ==
    IF buffer = <<>>
    THEN /\ flushPc' = [flushPc EXCEPT ![f] = "return"]
         /\ UNCHANGED <<buffer, flushBatch>>
    ELSE /\ flushBatch' = [flushBatch EXCEPT ![f] = buffer]
         /\ buffer' = <<>>
         /\ flushPc' = [flushPc EXCEPT ![f] = "insert"]

RebufferDropped(batch, live) == live

\* Collector.flush, second critical section: c.buffer = append(events, c.buffer...)
Rebuffer(batch, live) == batch \o live

\* Run: backfill from the REST endpoint is best effort and bypasses the buffer
RunBackfill ==
    /\ runPc = "backfill"
    /\ runPc' = "top"
    /\ UNCHANGED <<buffer, liqEvents, ctxDone, backoff, flushPc, flushBatch,
                   accepted, failedFlushes>>
    /\ UNCHANGED ddVars
    /\ UNCHANGED engVars
    /\ UNCHANGED otherVars

\* Run: head of the reconnect loop, select { case <-ctx.Done() ... default }
RunLoopTop ==
    /\ runPc = "top"
    /\ IF ctxDone
       THEN /\ runPc' = "flush"
            /\ FlushTake("run")
       ELSE /\ runPc' = "dial"
            /\ UNCHANGED <<buffer, flushPc, flushBatch>>
    /\ UNCHANGED <<liqEvents, ctxDone, backoff, accepted, failedFlushes>>
    /\ UNCHANGED ddVars
    /\ UNCHANGED engVars
    /\ UNCHANGED otherVars

\* connectAndRead: websocket.Dial succeeds or returns an error
Dial ==
    /\ runPc = "dial"
    /\ \E ok \in BOOLEAN :
          runPc' = IF ok /\ ~ctxDone THEN "connected" ELSE "disconnected"
    /\ UNCHANGED <<buffer, liqEvents, ctxDone, backoff, flushPc, flushBatch,
                   accepted, failedFlushes>>
    /\ UNCHANGED ddVars
    /\ UNCHANGED engVars
    /\ UNCHANGED otherVars

\* connectAndRead: conn.Read returns an error (peer closed, context cancelled)
ReadError ==
    /\ runPc = "connected"
    /\ runPc' = "disconnected"
    /\ UNCHANGED <<buffer, liqEvents, ctxDone, backoff, flushPc, flushBatch,
                   accepted, failedFlushes>>
    /\ UNCHANGED ddVars
    /\ UNCHANGED engVars
    /\ UNCHANGED otherVars

\* Run: after connectAndRead returned, if ctx.Err() != nil { return }
RunAfterRead ==
    /\ runPc = "disconnected"
    /\ runPc' = IF ctxDone THEN "returned" ELSE "wait"
    /\ UNCHANGED <<buffer, liqEvents, ctxDone, backoff, flushPc, flushBatch,
                   accepted, failedFlushes>>
    /\ UNCHANGED ddVars
    /\ UNCHANGED engVars
    /\ UNCHANGED otherVars

\* a reader that stops reconnecting once the wait has reached reconnectMax
RunBackoffGivesUp ==
    /\ runPc = "wait"
    /\ \/ /\ ctxDone \/ backoff >= reconnectMax
          /\ runPc' = "returned"
          /\ UNCHANGED backoff
       \/ /\ backoff < reconnectMax
          /\ runPc' = "top"
          /\ backoff' = Min(backoff * 2, reconnectMax)
    /\ UNCHANGED <<buffer, liqEvents, ctxDone, flushPc, flushBatch, accepted,
                   failedFlushes>>
    /\ UNCHANGED ddVars
    /\ UNCHANGED engVars
    /\ UNCHANGED otherVars

\* Run: select { case <-ctx.Done(): return; case <-time.After(backoff): }
RunBackoff ==
    /\ runPc = "wait"
    /\ \/ /\ ctxDone
          /\ runPc' = "returned"
          /\ UNCHANGED backoff
       \/ /\ runPc' = "top"
          /\ backoff' = Min(backoff * 2, reconnectMax)
    /\ UNCHANGED <<buffer, liqEvents, ctxDone, flushPc, flushBatch, accepted,
                   failedFlushes>>
    /\ UNCHANGED ddVars
    /\ UNCHANGED engVars
    /\ UNCHANGED otherVars

\* a flushLoop that only flushes while the reader is connected
FlushTickConnected ==
    /\ flushPc["ticker"] = "wait"
    /\ \/ /\ ctxDone
          /\ flushPc' = [flushPc EXCEPT !["ticker"] = "returned"]
          /\ UNCHANGED <<buffer, flushBatch>>
       \/ /\ runPc = "connected"
          /\ FlushTake("ticker")
    /\ UNCHANGED <<liqEvents, ctxDone, runPc, backoff, accepted, failedFlushes>>
    /\ UNCHANGED ddVars
    /\ UNCHANGED engVars
    /\ UNCHANGED otherVars

\* flushLoop: select { case <-ctx.Done(): return; case <-ticker.C: c.flush(ctx) }
FlushTick ==
    /\ flushPc["ticker"] = "wait"
    /\ \/ /\ ctxDone
          /\ flushPc' = [flushPc EXCEPT !["ticker"] = "returned"]
          /\ UNCHANGED <<buffer, flushBatch>>
       \/ FlushTake("ticker")
    /\ UNCHANGED <<liqEvents, ctxDone, runPc, backoff, accepted, failedFlushes>>
    /\ UNCHANGED ddVars
    /\ UNCHANGED engVars
    /\ UNCHANGED otherVars

\* flush: InsertLiquidationEvents commits the whole batch
FlushInsertOk(f) ==
    /\ flushPc[f] = "insert"
    /\ f = "ticker" => ~ctxDone
    /\ liqEvents' = liqEvents \o flushBatch[f]
    /\ flushBatch' = [flushBatch EXCEPT ![f] = <<>>]
    /\ flushPc' = [flushPc EXCEPT ![f] = "return"]
    /\ UNCHANGED <<buffer, ctxDone, runPc, backoff, accepted, failedFlushes>>
    /\ UNCHANGED ddVars
    /\ UNCHANGED engVars
    /\ UNCHANGED otherVars

\* flush: InsertLiquidationEvents returns an error, nothing is committed,
\* and the batch goes back in front of what has arrived since; the insert of
\* flushLoop under a cancelled ctx always returns one, counted or not
FlushInsertFail(f) ==
    /\ flushPc[f] = "insert"
    /\ failedFlushes < MaxFlushFails \/ (f = "ticker" /\ ctxDone)
    /\ buffer' = Rebuffer(flushBatch[f], buffer)
    /\ flushBatch' = [flushBatch EXCEPT ![f] = <<>>]
    /\ flushPc' = [flushPc EXCEPT ![f] = "return"]
    /\ failedFlushes' = IF failedFlushes < MaxFlushFails
                        THEN failedFlushes + 1 ELSE failedFlushes
    /\ UNCHANGED <<liqEvents, ctxDone, runPc, backoff, accepted>>
    /\ UNCHANGED ddVars
    /\ UNCHANGED engVars
    /\ UNCHANGED otherVars

\* flush returns to its caller: flushLoop waits for the next tick, Run returns
FlushReturn(f) ==
    /\ flushPc[f] = "return"
    /\ IF f = "ticker"
       THEN /\ flushPc' = [flushPc EXCEPT ![f] = "wait"]
            /\ UNCHANGED runPc
       ELSE /\ flushPc' = [flushPc EXCEPT ![f] = "idle"]
            /\ runPc' = "returned"
    /\ UNCHANGED <<buffer, liqEvents, ctxDone, backoff, flushBatch, accepted,
                   failedFlushes>>
    /\ UNCHANGED ddVars
    /\ UNCHANGED engVars
    /\ UNCHANGED otherVars

\* a cleanupLoop that does not listen to ctx.Done()
CleanupTickDeaf ==
    /\ cleanupPc = "wait"
    /\ cleanupPc' = "cleanup"
    /\ UNCHANGED <<mpResult, entries, sources, sourceNames, abandoned, mu>>
    /\ UNCHANGED ddVars
    /\ UNCHANGED colVars
    /\ UNCHANGED engVars

\* cleanupLoop: select { case <-ctx.Done(): return; case <-ticker.C: ... }
CleanupTick ==
    /\ cleanupPc = "wait"
    /\ \/ /\ ctxDone
          /\ cleanupPc' = "returned"
       \/ cleanupPc' = "cleanup"
    /\ UNCHANGED <<mpResult, entries, sources, sourceNames, abandoned, mu>>
    /\ UNCHANGED ddVars
    /\ UNCHANGED colVars
    /\ UNCHANGED engVars

\* Store.CleanupOldLiquidationEvents: DELETE ... WHERE event_time < now - maxAge;
\* the rows older than cleanupAge (30 days) are the ones marked stale, and no
\* row of this run is
CleanupOldLiquidationEvents(rows) ==
    SelectSeq(rows, LAMBDA r : "stale" \notin DOMAIN r)

\* cleanupLoop: CleanupOldLiquidationEvents returns; an error is only logged
CleanupDone ==
    /\ cleanupPc = "cleanup"
    /\ cleanupPc' = "wait"
    /\ \E ok \in BOOLEAN :
          liqEvents' = IF ok THEN CleanupOldLiquidationEvents(liqEvents)
                       ELSE liqEvents
    /\ UNCHANGED <<buffer, ctxDone, runPc, backoff, flushPc, flushBatch,
                   accepted, failedFlushes>>
    /\ UNCHANGED <<mpResult, entries, sources, sourceNames, abandoned, mu>>
    /\ UNCHANGED ddVars
    /\ UNCHANGED engVars

----------------------------------------------------------------------------
(* internal/monitor/engine.go: the polling engine                          *)
(*                                                                         *)
(* Units: metric values, ThresholdValue, APR and yield carry one decimal   *)
(* place (v stands for v/10); ThresholdPct is a number of percent (or of   *)
(* millions of dollars for opportunity rules); TVL is in dollars.          *)

maxHistoryLen == 60

\* poll cycles one run of the model goes through (the first is the initial
\* poll of Run, the others follow ticks)
MaxCycles == 5

\* a row of GetSubscribersWithThresholds / GetDailyReportSubscribers: the
\* subscription joined with its user's chat id and its event (event names are
\* <source>_<suffix>, kept as the pair <<source, suffix>>)
Row(id, chat, event, pct, window, dir, hour, tv, coin) ==
    [id |-> id, ChatID |-> chat, event |-> event, ThresholdPct |-> pct,
     WindowMinutes |-> window, Direction |-> dir, ReportHour |-> hour,
     ThresholdValue |-> tv, Coin |-> coin]

\* fmt verb %.0f on a value with one decimal place: round to the nearest
\* integer, a tie goes to the even one
Fmt0(v) ==
    LET q == v \div 10
        r == v % 10
    IN  IF r < 5 THEN q
        ELSE IF r > 5 THEN q + 1
        ELSE IF q % 2 = 0 THEN q ELSE q + 1

\* range over snap.Metrics: the metric names of a snapshot, in one order (the
\* rules of different metrics use different keys)
MetricOrder == <<"tvl", "opportunities", "top_apr", "turtle_opportunities",
                 "turtle_top_yield">>

MetricsOf(snap) == SelectSeq(MetricOrder, LAMBDA m : m \in DOMAIN snap)

\* GetSubscribersWithThresholds(eventName)
GetSubscribersWithThresholds(event) ==
    SelectSeq(subs, LAMBDA r : r.event = event)

\* GetDailyReportSubscribers(eventName, hour): one chat id per matching row
GetDailyReportSubscribers(event, hour) ==
    LET rows == SelectSeq(subs, LAMBDA r : r.event = event
                                           /\ r.ReportHour = hour)
    IN  [i \in 1..Len(rows) |-> rows[i].ChatID]

\* for _, sub := range subscribers { for metric := range snap.Metrics {...} }
RECURSIVE EvalQueue(_, _)
EvalQueue(rows, ms) ==
    IF rows = <<>> THEN <<>>
    ELSE [i \in 1..Len(ms) |-> [sub |-> Head(rows), m |-> ms[i]]]
             \o EvalQueue(Tail(rows), ms)

\* the engine's locals when it is between phases (failed: the sources for
\* which this cycle logged "get subscribers with thresholds failed"; ran: the
\* check* functions pollAll has called in this cycle, in call order)
EngIdle(pc, cycle) ==
    [pc |-> pc, cycle |-> cycle, tick |-> FALSE, todo |-> {}, src |-> "",
     queue |-> <<>>, pend |-> <<>>, failed |-> {}, ran |-> <<>>]

StartClock == [day |-> 1, hour |-> 8]

\* one hour later on the UTC+8 clock
NextHour(c) ==
    IF c.hour = 23 THEN [day |-> c.day + 1, hour |-> 0]
    ELSE [day |-> c.day, hour |-> c.hour + 1]

\* time.Now().In(utc8).Format("2006-01-02") for a day of January 2026
Today(c) ==
    <<"2", "0", "2", "6", "-", "0", "1", "-",
      Digits[(c.day \div 10) + 1], Digits[(c.day % 10) + 1]>>

\* alertKey of a value alert: "%d:%s:%s:%s:%.0f"
ValueKey(sub, name, metric) ==
    Itoa(sub.ChatID) \o <<":", name, ":", metric, ":", sub.Direction, ":">>
        \o Itoa(Fmt0(sub.ThresholdValue))

\* alertKey of a percentage alert: "%d:%s:%s:%s"
MetricKey(sub, name, metric) ==
    Itoa(sub.ChatID) \o <<":", name, ":", metric, ":", sub.Direction>>

\* dedupKey of a digest: "report:%s:%d:%s"
ReportKey(today, chatID, name) ==
    <<"report", ":">> \o today \o <<":">> \o Itoa(chatID) \o <<":", name>>

\* alertKey of an opportunity: "merkl:%d:%s" / "turtle:%d:%s"
OppKey(kind, chatID, oppID) ==
    <<kind, ":">> \o Itoa(chatID) \o <<":", oppID>>

\* the subscription takes the value-alert branch of pollAll
IsValueRule(sub) ==
    sub.ThresholdValue > 0 /\ sub.Direction \in {"higher", "lower"}

ValueTriggered(sub, currVal) ==
    \/ sub.Direction = "higher" /\ currVal > sub.ThresholdValue
    \/ sub.Direction = "lower" /\ currVal < sub.ThresholdValue

WindowSkipNever(sub, hist) == FALSE

\* if sub.WindowMinutes < 1 || sub.WindowMinutes >= len(hist) { continue }
WindowSkip(sub, hist) ==
    sub.WindowMinutes < 1 \/ sub.WindowMinutes >= Len(hist)

\* a rule that always compares with the snapshot of the cycle before
PastSnapPrevious(sub, hist) ==
    hist[IF Len(hist) - 1 >= 1 THEN Len(hist) - 1 ELSE 1]

\* pastSnap := hist[len(hist)-1-sub.WindowMinutes]; with a history shorter
\* than the window there is no such entry and the oldest one stands in
PastSnap(sub, hist) ==
    hist[IF Len(hist) - sub.WindowMinutes >= 1
         THEN Len(hist) - sub.WindowMinutes ELSE 1]

\* change >= threshold, with change = (curr-prev)/prev for "increase" and
\* (prev-curr)/prev otherwise, threshold = ThresholdPct/100 and prev > 0
\* (exact arithmetic; the offered values put no change on a threshold)
ChangeTriggered(sub, prevVal, currVal) ==
    IF sub.Direction = "increase"
    THEN (currVal - prevVal) * 100 >= sub.ThresholdPct * prevVal
    ELSE (prevVal - currVal) * 100 >= sub.ThresholdPct * prevVal

\* what pollAll decides for one subscription and one metric of the snapshot
\* just appended to hist: the dedup key and the state of the condition
RuleOutcome(sub, name, hist, metric) ==
    LET snap == hist[Len(hist)]
        currVal == snap[metric]
    IN  IF IsValueRule(sub)
        THEN [key |-> ValueKey(sub, name, metric), kind |-> "value",
              cond |-> IF ValueTriggered(sub, currVal) THEN "true" ELSE "false"]
        ELSE IF WindowSkip(sub, hist)
        THEN [key |-> MetricKey(sub, name, metric), kind |-> "metric",
              cond |-> "nohist"]
        ELSE LET pastSnap == PastSnap(sub, hist)
             IN  IF metric \notin DOMAIN pastSnap \/ pastSnap[metric] <= 0
                 THEN [key |-> MetricKey(sub, name, metric), kind |-> "metric",
                       cond |-> "noprev"]
                 ELSE [key |-> MetricKey(sub, name, metric), kind |-> "metric",
                       cond |-> IF ChangeTriggered(sub, pastSnap[metric], currVal)
                                THEN "true" ELSE "false"]

\* the record of one evaluation kept in trace
Outcome(item, hist, out, sent, before, after) ==
    [m |-> item.m, val |-> hist[Len(hist)][item.m], len |-> Len(hist),
     cond |-> out.cond, sent |-> sent, before |-> before, after |-> after]

\* one call of alertFn(chatID, msg) that returned nil
Message(chatID, kind, name, items) ==
    [chat |-> chatID, kind |-> kind, source |-> name, items |-> items,
     day |-> clock.day, cycle |-> eng.cycle]

\* the engine moves on to the next entry of the loop it is in, or leaves the
\* loop for phase after when this was the last entry
Advance(e, loop, after) ==
    IF Len(e.queue) > 1
    THEN [e EXCEPT !.pc = loop, !.queue = Tail(e.queue), !.pend = <<>>]
    ELSE [e EXCEPT !.pc = after, !.queue = <<>>, !.pend = <<>>, !.src = ""]

\* strings.ToUpper on a token
ToUpper(tok) ==
    CASE tok = "lend" -> "LEND"
      [] tok = "borrow" -> "BORROW"
      [] tok = "all" -> "ALL"
      [] tok = "btc" -> "BTC"
      [] OTHER -> tok

\* sub.ThresholdValue / sub.ThresholdPct with their defaults (10%, 1M)
MinAPR(sub) == IF sub.ThresholdValue <= 0 THEN 100 ELSE sub.ThresholdValue

MinTVL(sub) ==
    IF sub.ThresholdPct * 1000000 <= 0 THEN 1000000
    ELSE sub.ThresholdPct * 1000000

\* Merkl.GetFilteredOpportunities on the cached opportunities, with the
\* arguments checkMerklAlerts derives from the subscription
MerklFiltered(sub, opps) ==
    LET upper == [i \in DOMAIN sub.Coin |-> ToUpper(sub.Coin[i])]
        action == IF upper = <<>> THEN <<"ALL">> ELSE upper
        stableFilter == IF sub.Direction = "" THEN "any" ELSE sub.Direction
    IN  {o \in opps :
            /\ ~(o.APR < MinAPR(sub) \/ o.TVL < MinTVL(sub))
            /\ ~(action # <<"ALL">>
                 /\ ~(\E i \in DOMAIN action : action[i] = o.Action))
            /\ ~(stableFilter = "stablecoin" /\ ~o.Stablecoin)
            /\ ~(stableFilter = "non-stablecoin" /\ o.Stablecoin)}

\* filterOpportunities: active, TVL and total yield at least the minimum
filterOpportunities(opps, minYield, minTVL) ==
    {o \in opps : o.Status = "active" /\ ~(o.TVL < minTVL)
                  /\ ~(o.Yield < minYield)}

\* Turtle.GetFilteredOpportunities on the freshly fetched opportunities (nil
\* when the fetch failed), with the arguments checkTurtleAlerts derives
TurtleFiltered(sub, opps) ==
    LET tagFilter == IF sub.Coin = <<>> THEN <<"ALL">> ELSE sub.Coin
        tokenFilter == IF sub.Direction = "" THEN "all" ELSE sub.Direction
    IN  {o \in filterOpportunities(opps, MinAPR(sub), MinTVL(sub)) :
            /\ ~(tokenFilter \in {"stable", "stablecoin"} /\ ~o.Stablecoin)
            /\ ~(tokenFilter = "btc" /\ ~o.BTC)
            /\ ~(tokenFilter = "eth" /\ ~o.ETH)
            /\ ~(tokenFilter = "non-stablecoin" /\ o.Stablecoin)
            /\ \/ [i \in DOMAIN tagFilter |-> ToUpper(tagFilter[i])] = <<"ALL">>
               \/ \E i \in DOMAIN tagFilter : tagFilter[i] \in o.Tags}

\* Run: the initial pollAll
RunStart ==
    /\ eng.pc = "start"
    /\ eng' = [EngIdle("poll", 1) EXCEPT !.todo = cfg.sources]
    /\ UNCHANGED <<cfg, subs, snapHistory, merklOpps, clock, trace, outbox,
                   unsubbed>>
    /\ UNCHANGED ddVars
    /\ UNCHANGED colVars
    /\ UNCHANGED otherVars

\* Run: case <-pollTicker.C, a minute later (the hour may have turned)
RunTick ==
    /\ eng.pc = "idle"
    /\ eng.cycle < MaxCycles
    /\ \E adv \in cfg.clockAdv :
          clock' = IF adv = 0 THEN clock ELSE NextHour(clock)
    /\ eng' = [EngIdle("poll", eng.cycle + 1) EXCEPT !.todo = cfg.sources,
                                                      !.tick = TRUE]
    /\ UNCHANGED <<cfg, subs, snapHistory, merklOpps, trace, outbox, unsubbed>>
    /\ UNCHANGED ddVars
    /\ UNCHANGED colVars
    /\ UNCHANGED otherVars

\* Run: case <-ctx.Done(): return
RunStop ==
    /\ eng.pc = "idle"
    /\ ctxDone
    /\ eng' = EngIdle("returned", eng.cycle)
    /\ UNCHANGED <<cfg, subs, snapHistory, merklOpps, clock, trace, outbox,
                   unsubbed>>
    /\ UNCHANGED ddVars
    /\ UNCHANGED colVars
    /\ UNCHANGED otherVars

Untrimmed(history) == history

\* if len(history) > maxHistoryLen { history = history[len(history)-maxHistoryLen:] }
Trim(history) ==
    IF Len(history) > maxHistoryLen
    THEN SubSeq(history, Len(history) - maxHistoryLen + 1, Len(history))
    ELSE history

\* the sources whose FetchSnapshot may take longer than fetchTimeout
FetchSlow == IF "fetchSlow" \in DOMAIN cfg THEN cfg.fetchSlow ELSE {}

\* the sources whose subscriber lookup may return an error
LookupErr == IF "lookupErr" \in DOMAIN cfg THEN cfg.lookupErr ELSE {}

\* a loop that returns from pollAll when the lookup fails
LookupFailedReturns(e, name) ==
    [e EXCEPT !.todo = {}, !.failed = @ \cup {name}]

\* pollAll, GetSubscribersWithThresholds returned an error: log and continue
LookupFailed(e, name) ==
    [e EXCEPT !.todo = @ \ {name}, !.failed = @ \cup {name}]

\* fetchWithTimeout: ch := make(chan result, 1)
ResultChanCap == 1

\* a send on a channel without buffer, after the receiver has gone
AfterSendUnbuffered(g) == [g EXCEPT !.st = "blocked"]

\* fetchWithTimeout, ch <- result{s, e} after the timeout: nothing else is
\* ever sent on ch, so the send returns iff ch has a buffer
AfterSend(g) ==
    [g EXCEPT !.st = IF ResultChanCap >= 1 THEN "done" ELSE "blocked"]

PollSourceAborts(name) ==
    /\ eng.pc = "poll"
    /\ name \in eng.todo
    /\ \/ /\ name \in cfg.fetchErr
          /\ eng' = [eng EXCEPT !.todo = {}]
          /\ UNCHANGED <<snapHistory, merklOpps>>
       \/ \E got \in cfg.fetch[name] :
             LET appended == Append(snapHistory[name], got.snap)
                 history == Trim(appended)
                 queue == EvalQueue(
                     GetSubscribersWithThresholds(<<name, "metric_alert">>),
                     MetricsOf(got.snap))
             IN  /\ snapHistory' = [snapHistory EXCEPT ![name] = history]
                 /\ merklOpps' = IF name = "merkl" THEN got.opps ELSE merklOpps
                 /\ eng' = IF queue = <<>>
                           THEN [eng EXCEPT !.todo = @ \ {name}]
                           ELSE [eng EXCEPT !.todo = @ \ {name}, !.pc = "eval",
                                            !.src = name, !.queue = queue]
    /\ UNCHANGED <<cfg, subs, clock, trace, outbox, unsubbed>>
    /\ UNCHANGED ddVars
    /\ UNCHANGED colVars
    /\ UNCHANGED otherVars

\* pollAll, one iteration of range e.sources up to the subscriber loop:
\* fetchWithTimeout (Merkl.FetchSnapshot also replaces its cached
\* opportunities), append to the history and trim it, look the subscribers up
PollSource(name) ==
    /\ eng.pc = "poll"
    /\ name \in eng.todo
    /\ \/ /\ name \in cfg.fetchErr
          /\ eng' = [eng EXCEPT !.todo = @ \ {name}]
          /\ UNCHANGED <<snapHistory, merklOpps, abandoned>>
       \/ /\ name \in FetchSlow
          /\ \E got \in cfg.fetch[name] :
                abandoned' = abandoned \cup
                    {[src |-> name, snap |-> got.snap, cycle |-> eng.cycle,
                      st |-> "running"]}
          /\ eng' = [eng EXCEPT !.todo = @ \ {name}]
          /\ UNCHANGED <<snapHistory, merklOpps>>
       \/ \E got \in cfg.fetch[name] :
             LET appended == Append(snapHistory[name], got.snap)
                 history == Trim(appended)
                 queue == EvalQueue(
                     GetSubscribersWithThresholds(<<name, "metric_alert">>),
                     MetricsOf(got.snap))
             IN  /\ snapHistory' = [snapHistory EXCEPT ![name] = history]
                 /\ merklOpps' = IF name = "merkl" THEN got.opps ELSE merklOpps
                 /\ \/ /\ name \in LookupErr
                       /\ eng' = LookupFailed(eng, name)
                    \/ eng' = IF queue = <<>>
                              THEN [eng EXCEPT !.todo = @ \ {name}]
                              ELSE [eng EXCEPT !.todo = @ \ {name},
                                               !.pc = "eval", !.src = name,
                                               !.queue = queue]
                 /\ UNCHANGED abandoned
    /\ UNCHANGED <<cfg, subs, clock, trace, outbox, unsubbed>>
    /\ UNCHANGED ddVars
    /\ UNCHANGED colVars
    /\ UNCHANGED <<mpResult, entries, sources, sourceNames, cleanupPc, mu>>

\* fetchWithTimeout, the goroutine left behind by a timeout: fn() returns and
\* ch <- result{s, e} either goes into the buffer of ch, after which the
\* goroutine ends, or waits for a receiver that has gone
LateFetch ==
    /\ \E g \in abandoned :
          /\ g.st = "running"
          /\ abandoned' = (abandoned \ {g}) \cup {AfterSend(g)}
    /\ UNCHANGED <<mpResult, entries, sources, sourceNames, cleanupPc, mu>>
    /\ UNCHANGED engVars
    /\ UNCHANGED ddVars
    /\ UNCHANGED colVars

\* pollAll, one metric of one subscriber: decide, then either ask the dedup
\* store and go on to send, or clear the key
EvalMetric ==
    /\ eng.pc = "eval"
    /\ LET item == Head(eng.queue)
           hist == snapHistory[eng.src]
           out  == RuleOutcome(item.sub, eng.src, hist, item.m)
       IN  \/ /\ out.cond \in {"nohist", "noprev"}
              /\ trace' = [trace EXCEPT ![item.sub.id] =
                    Append(@, Outcome(item, hist, out, FALSE,
                                      out.key \in redis, out.key \in redis))]
              /\ eng' = Advance(eng, "eval", "poll")
              /\ UNCHANGED redis
           \/ /\ out.cond = "true"
              /\ AlreadySent(out.key)
              /\ trace' = [trace EXCEPT ![item.sub.id] =
                    Append(@, Outcome(item, hist, out, FALSE,
                                      out.key \in redis, out.key \in redis))]
              /\ eng' = Advance(eng, "eval", "poll")
              /\ UNCHANGED redis
           \/ /\ out.cond = "true"
              /\ ~AlreadySent(out.key)
              /\ eng' = [eng EXCEPT !.pc = "send", !.pend = <<out>>]
              /\ UNCHANGED <<redis, trace>>
           \/ /\ out.cond = "false"
              /\ redis' = Clear(out.key)
              /\ trace' = [trace EXCEPT ![item.sub.id] =
                    Append(@, Outcome(item, hist, out, FALSE,
                                      out.key \in redis, out.key \in redis'))]
              /\ eng' = Advance(eng, "eval", "poll")
    /\ UNCHANGED <<cfg, subs, snapHistory, merklOpps, clock, outbox, unsubbed>>
    /\ UNCHANGED <<redisUp, ddLast, ddPrev>>
    /\ UNCHANGED colVars
    /\ UNCHANGED otherVars

\* the deployment lets alertFn return an error for this chat
SendMayFail(chatID) == "sendFail" \in DOMAIN cfg /\ chatID \in cfg.sendFail

\* pollAll, sendValueAlert / sendMetricAlertToUser followed by dedup.Record;
\* the send functions log an error of alertFn and return nothing
EvalSend ==
    /\ eng.pc = "send"
    /\ LET item == Head(eng.queue)
           hist == snapHistory[eng.src]
           out  == eng.pend[1]
       IN  /\ redis' = Record(out.key)
           /\ \E delivered \in {TRUE} \cup {~SendMayFail(item.sub.ChatID)} :
                 /\ outbox' = IF delivered
                              THEN Append(outbox, Message(item.sub.ChatID,
                                              out.kind, eng.src, {item.m}))
                              ELSE outbox
                 /\ trace' = [trace EXCEPT ![item.sub.id] =
                       Append(@, Outcome(item, hist, out, delivered,
                                         out.key \in redis, out.key \in redis'))]
           /\ eng' = Advance(eng, "eval", "poll")
    /\ UNCHANGED <<cfg, subs, snapHistory, merklOpps, clock, unsubbed>>
    /\ UNCHANGED <<redisUp, ddLast, ddPrev>>
    /\ UNCHANGED colVars
    /\ UNCHANGED otherVars

\* strings.ToLower on a direction
ToLower(tok) ==
    CASE tok = "LONG" -> "long"
      [] tok = "SHORT" -> "short"
      [] OTHER -> tok

\* IntervalFromMinutes: the interval of a window, "24h" for any other window
IntervalFromMinutes(minutes) ==
    CASE minutes = 720 -> "12h"
      [] minutes = 1440 -> "24h"
      [] minutes = 2880 -> "48h"
      [] minutes = 4320 -> "3d"
      [] minutes = 10080 -> "7d"
      [] minutes = 20160 -> "2w"
      [] minutes = 43200 -> "1M"
      [] OTHER -> "24h"

\* what mp.GetEntry can return in this deployment: ok is its second result
MaxpainEntries ==
    IF "maxpainEntries" \in DOMAIN cfg THEN cfg.maxpainEntries ELSE {}

\* alertKey of a max-pain alert: "maxpain:%d:%s:%s:%s"
MaxpainKey(sub) ==
    <<"maxpain", ":">> \o Itoa(sub.ChatID) \o <<":">>
        \o [i \in DOMAIN sub.Coin |-> ToUpper(sub.Coin[i])]
        \o <<":", ToLower(sub.Direction), ":",
             IntervalFromMinutes(sub.WindowMinutes)>>

\* the level of the subscription's side (0 for a direction that has none)
MaxpainPrice(sub, entry) ==
    CASE ToLower(sub.Direction) = "long" -> entry.MaxLongLiquidationPrice
      [] ToLower(sub.Direction) = "short" -> entry.MaxShortLiquidationPrice
      [] OTHER -> 0

MaxpainThresholdNoDefault(sub) == sub.ThresholdValue

\* threshold := sub.ThresholdValue; if threshold <= 0 { threshold = 1.0 }
MaxpainThreshold(sub) ==
    IF sub.ThresholdValue <= 0 THEN 10 ELSE sub.ThresholdValue

\* dist <= threshold, dist = |price - maxpainPrice| / price * 100 (price > 0;
\* prices and the threshold are in tenths)
MaxpainWithin(sub, entry) ==
    LET price == entry.Price
        level == MaxpainPrice(sub, entry)
        diff  == IF price >= level THEN price - level ELSE level - price
    IN  diff * 1000 <= MaxpainThreshold(sub) * price

\* one subscriber of checkMaxpainAlerts up to the dedup calls: "skip" for
\* every continue before the distance is computed
MaxpainOutcome(sub, entry) ==
    IF sub.Coin = <<>> THEN "skip"
    ELSE IF ~entry.ok \/ entry.Price <= 0 THEN "skip"
    ELSE IF ToLower(sub.Direction) \notin {"long", "short"} THEN "skip"
    ELSE IF MaxpainPrice(sub, entry) <= 0 THEN "skip"
    ELSE IF MaxpainWithin(sub, entry) THEN "true" ELSE "false"

\* the record of one max-pain evaluation kept in trace
MaxpainTrace(entry, cond, sent, before, after) ==
    [m |-> "maxpain", val |-> entry, len |-> 0, cond |-> cond, sent |-> sent,
     before |-> before, after |-> after]

\* a pollAll that goes from the max-pain rule straight to the Turtle rule
MaxpainAdvanceSkipsMerkl(e) ==
    IF Len(e.queue) > 1
    THEN [e EXCEPT !.pc = "maxpain", !.queue = Tail(e.queue),
                   !.pend = <<e.pend[1]>>]
    ELSE [e EXCEPT !.pc = "turtle", !.queue = <<>>, !.pend = <<>>]

\* the loop over the max-pain subscribers moves on (the cached entry of this
\* cycle stays in pend[1])
MaxpainAdvance(e) ==
    IF Len(e.queue) > 1
    THEN [e EXCEPT !.pc = "maxpain", !.queue = Tail(e.queue),
                   !.pend = <<e.pend[1]>>]
    ELSE [e EXCEPT !.pc = "merkl", !.queue = <<>>, !.pend = <<>>]

\* checkMaxpainAlerts up to the subscriber loop: return when the maxpain
\* source is not registered or nobody subscribes to general_maxpain_alert;
\* otherwise ScrapeIntervals refreshes the cache, which then holds one of
\* the deployment's entries for the rest of the call
checkMaxpainAlerts ==
    /\ eng.pc = "poll"
    /\ eng.todo = {}
    /\ LET subscribers ==
               GetSubscribersWithThresholds(<<"general", "maxpain_alert">>)
       IN  IF "maxpain" \notin cfg.sources \/ subscribers = <<>>
           THEN eng' = [eng EXCEPT !.pc = "merkl",
                                   !.ran = Append(@, "maxpain")]
           ELSE \E entry \in MaxpainEntries :
                   eng' = [eng EXCEPT !.pc = "maxpain", !.queue = subscribers,
                                      !.pend = <<entry>>,
                                      !.ran = Append(@, "maxpain")]
    /\ UNCHANGED <<cfg, subs, snapHistory, merklOpps, clock, trace, outbox,
                   unsubbed>>
    /\ UNCHANGED ddVars
    /\ UNCHANGED colVars
    /\ UNCHANGED otherVars

\* checkMaxpainAlerts, one subscriber: skip, or compare the distance with
\* the threshold and then ask the dedup store or clear the key
MaxpainEval ==
    /\ eng.pc = "maxpain"
    /\ LET sub   == Head(eng.queue)
           entry == eng.pend[1]
           cond  == MaxpainOutcome(sub, entry)
           key   == MaxpainKey(sub)
       IN  \/ /\ cond = "skip"
              /\ trace' = [trace EXCEPT ![sub.id] =
                    Append(@, MaxpainTrace(entry, cond, FALSE, key \in redis,
                                           key \in redis))]
              /\ eng' = MaxpainAdvance(eng)
              /\ UNCHANGED redis
           \/ /\ cond = "true"
              /\ AlreadySent(key)
              /\ trace' = [trace EXCEPT ![sub.id] =
                    Append(@, MaxpainTrace(entry, cond, FALSE, key \in redis,
                                           key \in redis))]
              /\ eng' = MaxpainAdvance(eng)
              /\ UNCHANGED redis
           \/ /\ cond = "true"
              /\ ~AlreadySent(key)
              /\ eng' = [eng EXCEPT !.pc = "maxpainSend"]
              /\ UNCHANGED <<redis, trace>>
           \/ /\ cond = "false"
              /\ redis' = Clear(key)
              /\ trace' = [trace EXCEPT ![sub.id] =
                    Append(@, MaxpainTrace(entry, cond, FALSE, key \in redis,
                                           key \in redis'))]
              /\ eng' = MaxpainAdvance(eng)
    /\ UNCHANGED <<cfg, subs, snapHistory, merklOpps, clock, outbox, unsubbed>>
    /\ UNCHANGED <<redisUp, ddLast, ddPrev>>
    /\ UNCHANGED colVars
    /\ UNCHANGED otherVars

\* checkMaxpainAlerts, sendMaxpainAlert followed by dedup.Record
MaxpainSend ==
    /\ eng.pc = "maxpainSend"
    /\ LET sub   == Head(eng.queue)
           entry == eng.pend[1]
           key   == MaxpainKey(sub)
       IN  /\ outbox' = Append(outbox, Message(sub.ChatID, "maxpain",
                                               "maxpain", {key}))
           /\ redis' = Record(key)
           /\ trace' = [trace EXCEPT ![sub.id] =
                 Append(@, MaxpainTrace(entry, "true", TRUE, key \in redis,
                                        key \in redis'))]
           /\ eng' = MaxpainAdvance(eng)
    /\ UNCHANGED <<cfg, subs, snapHistory, merklOpps, clock, unsubbed>>
    /\ UNCHANGED <<redisUp, ddLast, ddPrev>>
    /\ UNCHANGED colVars
    /\ UNCHANGED otherVars

\* checkMerklAlerts up to the subscriber loop
checkMerklAlerts ==
    /\ eng.pc = "merkl"
    /\ LET subscribers ==
               GetSubscribersWithThresholds(<<"general", "merkl_alert">>)
       IN  eng' = IF "merkl" \notin cfg.sources \/ subscribers = <<>>
                  THEN [eng EXCEPT !.pc = "turtle",
                                   !.ran = Append(@, "merkl")]
                  ELSE [eng EXCEPT !.pc = "merklSub", !.queue = subscribers,
                                   !.ran = Append(@, "merkl")]
    /\ UNCHANGED <<cfg, subs, snapHistory, merklOpps, clock, trace, outbox,
                   unsubbed>>
    /\ UNCHANGED ddVars
    /\ UNCHANGED colVars
    /\ UNCHANGED otherVars

\* checkMerklAlerts, one subscriber: filter the cached opportunities and
\* collect those whose key AlreadySent does not report
MerklCollect ==
    /\ eng.pc = "merklSub"
    /\ LET sub == Head(eng.queue)
           opps == MerklFiltered(sub, merklOpps)
           newOpps == {o \in opps :
                          ~AlreadySent(OppKey("merkl", sub.ChatID, o.ID))}
       IN  eng' = IF newOpps = {}
                  THEN Advance(eng, "merklSub", "turtle")
                  ELSE [eng EXCEPT !.pc = "merklSend", !.pend = <<newOpps>>]
    /\ UNCHANGED <<cfg, subs, snapHistory, merklOpps, clock, trace, outbox,
                   unsubbed>>
    /\ UNCHANGED ddVars
    /\ UNCHANGED colVars
    /\ UNCHANGED otherVars

\* Record applied to each key of a set, one after the other
RecordAll(keys) == IF redisUp THEN redis \cup keys ELSE redis

\* checkMerklAlerts, one subscriber: sendMerklGroupedAlert, then Record for
\* every opportunity of the message
MerklSend ==
    /\ eng.pc = "merklSend"
    /\ LET sub == Head(eng.queue)
           newOpps == eng.pend[1]
       IN  /\ outbox' = Append(outbox, Message(sub.ChatID, "merkl", "merkl",
                                               {o.ID : o \in newOpps}))
           /\ redis' = RecordAll({OppKey("merkl", sub.ChatID, o.ID) :
                                     o \in newOpps})
    /\ eng' = Advance(eng, "merklSub", "turtle")
    /\ UNCHANGED <<cfg, subs, snapHistory, merklOpps, clock, trace, unsubbed>>
    /\ UNCHANGED <<redisUp, ddLast, ddPrev>>
    /\ UNCHANGED colVars
    /\ UNCHANGED otherVars

\* checkTurtleAlerts up to the subscriber loop
checkTurtleAlerts ==
    /\ eng.pc = "turtle"
    /\ LET subscribers ==
               GetSubscribersWithThresholds(<<"general", "turtle_alert">>)
       IN  eng' = IF "turtle" \notin cfg.sources \/ subscribers = <<>>
                  THEN [eng EXCEPT !.pc = "binance",
                                   !.ran = Append(@, "turtle")]
                  ELSE [eng EXCEPT !.pc = "turtleSub", !.queue = subscribers,
                                   !.ran = Append(@, "turtle")]
    /\ UNCHANGED <<cfg, subs, snapHistory, merklOpps, clock, trace, outbox,
                   unsubbed>>
    /\ UNCHANGED ddVars
    /\ UNCHANGED colVars
    /\ UNCHANGED otherVars

\* checkTurtleAlerts, one subscriber: fetch and filter the opportunities and
\* collect those whose key AlreadySent does not report
TurtleCollect ==
    /\ eng.pc = "turtleSub"
    /\ \E fetched \in cfg.turtleLive :
          LET sub == Head(eng.queue)
              opps == TurtleFiltered(sub, fetched)
              newOpps == {o \in opps :
                             ~AlreadySent(OppKey("turtle", sub.ChatID, o.ID))}
          IN  eng' = IF newOpps = {}
                     THEN Advance(eng, "turtleSub", "binance")
                     ELSE [eng EXCEPT !.pc = "turtleSend",
                                      !.pend = <<newOpps>>]
    /\ UNCHANGED <<cfg, subs, snapHistory, merklOpps, clock, trace, outbox,
                   unsubbed>>
    /\ UNCHANGED ddVars
    /\ UNCHANGED colVars
    /\ UNCHANGED otherVars

\* checkTurtleAlerts, one subscriber: sendTurtleGroupedAlert, then Record for
\* every opportunity of the message
TurtleSend ==
    /\ eng.pc = "turtleSend"
    /\ LET sub == Head(eng.queue)
           newOpps == eng.pend[1]
       IN  /\ outbox' = Append(outbox, Message(sub.ChatID, "turtle", "turtle",
                                               {o.ID : o \in newOpps}))
           /\ redis' = RecordAll({OppKey("turtle", sub.ChatID, o.ID) :
                                     o \in newOpps})
    /\ eng' = Advance(eng, "turtleSub", "binance")
    /\ UNCHANGED <<cfg, subs, snapHistory, merklOpps, clock, trace, unsubbed>>
    /\ UNCHANGED <<redisUp, ddLast, ddPrev>>
    /\ UNCHANGED colVars
    /\ UNCHANGED otherVars

\* checkBinancePriceAlerts when the binance source is not registered (main
\* registers none), which ends pollAll; after a tick Run goes on to
\* sendDueReports with the hour of the clock
checkBinancePriceAlerts ==
    /\ eng.pc = "binance"
    /\ "binance" \notin cfg.sources
    /\ eng' = IF eng.tick
              THEN [eng EXCEPT !.pc = "reports", !.todo = cfg.sources,
                               !.ran = Append(@, "binance")]
              ELSE [EngIdle("idle", eng.cycle) EXCEPT
                       !.ran = Append(eng.ran, "binance")]
    /\ UNCHANGED <<cfg, subs, snapHistory, merklOpps, clock, trace, outbox,
                   unsubbed>>
    /\ UNCHANGED ddVars
    /\ UNCHANGED colVars
    /\ UNCHANGED otherVars

\* the deployment lets FetchDailyReport of this source return an error
ReportMayFail(name) == "reportErr" \in DOMAIN cfg /\ name \in cfg.reportErr

\* the deployment lets FetchDailyReport of this source never return
ReportMayHang(name) == "reportHang" \in DOMAIN cfg /\ name \in cfg.reportHang

\* sendDueReports, one iteration of range e.sources up to the recipient
\* loop: look the recipients of this hour up, call src.FetchDailyReport()
\* (a plain call: an error skips the source, a call that does not return
\* leaves sendDueReports, and Run with it, waiting in that call)
ReportSource(name) ==
    /\ eng.pc = "reports"
    /\ name \in eng.todo
    /\ LET chatIDs == GetDailyReportSubscribers(<<name, "daily_report">>,
                                                clock.hour)
       IN  \/ eng' = IF chatIDs = <<>>
                     THEN [eng EXCEPT !.todo = @ \ {name}]
                     ELSE [eng EXCEPT !.todo = @ \ {name},
                                      !.pc = "reportChat",
                                      !.src = name, !.queue = chatIDs]
           \/ /\ chatIDs # <<>>
              /\ ReportMayFail(name)
              /\ eng' = [eng EXCEPT !.todo = @ \ {name}]
           \/ /\ chatIDs # <<>>
              /\ ReportMayHang(name)
              /\ eng' = [eng EXCEPT !.todo = @ \ {name}, !.pc = "reportFetch",
                                    !.src = name]
    /\ UNCHANGED <<cfg, subs, snapHistory, merklOpps, clock, trace, outbox,
                   unsubbed>>
    /\ UNCHANGED ddVars
    /\ UNCHANGED colVars
    /\ UNCHANGED otherVars

\* sendDueReports, one recipient: skip when AlreadySent reports the key of
\* today, otherwise go on to send
ReportCheck ==
    /\ eng.pc = "reportChat"
    /\ LET chatID == Head(eng.queue)
           dedupKey == ReportKey(Today(clock), chatID, eng.src)
       IN  eng' = IF AlreadySent(dedupKey)
                  THEN Advance(eng, "reportChat", "reports")
                  ELSE [eng EXCEPT !.pc = "reportSend", !.pend = <<dedupKey>>]
    /\ UNCHANGED <<cfg, subs, snapHistory, merklOpps, clock, trace, outbox,
                   unsubbed>>
    /\ UNCHANGED ddVars
    /\ UNCHANGED colVars
    /\ UNCHANGED otherVars


ReportSendRecordsAnyway ==
    /\ eng.pc = "reportSend"
    /\ \/ /\ outbox' = Append(outbox, Message(Head(eng.queue), "digest",
                                               eng.src, {}))
          /\ redis' = Record(eng.pend[1])
       \/ /\ SendMayFail(Head(eng.queue))
          /\ redis' = Record(eng.pend[1])
          /\ UNCHANGED outbox
    /\ eng' = Advance(eng, "reportChat", "reports")
    /\ UNCHANGED <<cfg, subs, snapHistory, merklOpps, clock, trace, unsubbed>>
    /\ UNCHANGED <<redisUp, ddLast, ddPrev>>
    /\ UNCHANGED colVars
    /\ UNCHANGED otherVars

\* sendDueReports, one recipient: alertFn, then Record; when alertFn returns
\* an error the loop goes on to the next recipient without Record
ReportSend ==
    /\ eng.pc = "reportSend"
    /\ \/ /\ outbox' = Append(outbox, Message(Head(eng.queue), "digest",
                                               eng.src, {}))
          /\ redis' = Record(eng.pend[1])
       \/ /\ SendMayFail(Head(eng.queue))
          /\ UNCHANGED <<outbox, redis>>
    /\ eng' = Advance(eng, "reportChat", "reports")
    /\ UNCHANGED <<cfg, subs, snapHistory, merklOpps, clock, trace, unsubbed>>
    /\ UNCHANGED <<redisUp, ddLast, ddPrev>>
    /\ UNCHANGED colVars
    /\ UNCHANGED otherVars

\* sendDueReports returns once every source has had its turn
ReportsDone ==
    /\ eng.pc = "reports"
    /\ eng.todo = {}
    /\ eng' = EngIdle("idle", eng.cycle)
    /\ UNCHANGED <<cfg, subs, snapHistory, merklOpps, clock, trace, outbox,
                   unsubbed>>
    /\ UNCHANGED ddVars
    /\ UNCHANGED colVars
    /\ UNCHANGED otherVars

\* the context is cancelled while the engine runs
CancelEngine ==
    /\ ~ctxDone
    /\ ctxDone' = TRUE
    /\ UNCHANGED engVars
    /\ UNCHANGED ddVars
    /\ UNCHANGED colLocal
    /\ UNCHANGED otherVars

----------------------------------------------------------------------------
(* internal/handler/subscriptions.go: DELETE /api/subscriptions/{id}       *)

\* Store.GetSubscriptionChatID: the chat id of the subscription's user, 0
\* when there is no such subscription
GetSubscriptionChatID(id) ==
    IF \E i \in DOMAIN subs : subs[i].id = id
    THEN subs[CHOOSE i \in DOMAIN subs : subs[i].id = id].ChatID
    ELSE 0

\* the keys left after ClearByPattern("*<chat>:*") followed by
\* ClearByPattern("merkl:<chat>:*")
UnsubscribeCleared(chatID) ==
    LET first == <<"*">> \o Itoa(chatID) \o <<":", "*">>
        second == <<"merkl", ":">> \o Itoa(chatID) \o <<":", "*">>
    IN  IF redisUp
        THEN {k \in redis : ~GlobMatch(first, k) /\ ~GlobMatch(second, k)}
        ELSE redis

\* Unsubscribe: look the chat id up, delete the row, clear the dedup keys
Unsubscribe(id) ==
    /\ id \in cfg.unsubs
    /\ \E i \in DOMAIN subs : subs[i].id = id
    /\ LET chatID == GetSubscriptionChatID(id)
       IN  /\ subs' = SelectSeq(subs, LAMBDA r : r.id # id)
           /\ redis' = IF chatID # 0 THEN UnsubscribeCleared(chatID) ELSE redis
           /\ unsubbed' = unsubbed \cup {chatID}
    /\ UNCHANGED <<cfg, snapHistory, merklOpps, eng, clock, trace, outbox>>
    /\ UNCHANGED <<redisUp, ddLast, ddPrev>>
    /\ UNCHANGED colVars
    /\ UNCHANGED otherVars

----------------------------------------------------------------------------
(* internal/store/postgres.go: Store.QueryMaxPain                          *)

\* how many rows the table holds when QueryMaxPain is called
MaxRows == 3

\* time.Now() at the call, and the instants rows carry
QueryNow == 10

\* mpResult before any call
NoResult == <<>>

MaxPainResult(bin, total) == [PriceBin |-> bin, USDTotal |-> total]

\* a row of liquidation_events as far as QueryMaxPain reads it
LiqRow(symbol, side, price, usd, time) ==
    [Symbol |-> symbol, Side |-> side, Price |-> price, USDValue |-> usd,
     EventTime |-> time]

\* the rows the table is filled from: long BTC rows inside a window of 5 at
\* 96.0, 100.0, 104.0, 105.0 and 115.0, short ones at 100.0 and 105.0, one
\* row per side at the edge of the window, one row outside it and one row
\* of another symbol
QueryRowsOffered ==
    {LiqRow("BTC", "LONG", price, usd, 8) :
         price \in {960, 1000, 1040, 1050, 1150}, usd \in {10, 30}}
    \cup {LiqRow("BTC", "SHORT", 1000, 10, 8), LiqRow("BTC", "SHORT", 1050, 10, 8)}
    \cup {LiqRow("BTC", "LONG", 1150, 50, 5), LiqRow("BTC", "SHORT", 1150, 50, 5),
          LiqRow("BTC", "LONG", 1150, 50, 3), LiqRow("ETH", "LONG", 1000, 50, 8)}

\* ROUND(x) of PostgreSQL on double precision, x = n / d: to the nearest
\* integer, a tie to the even one
RoundTruncated(n, d) == n \div d

RoundDouble(n, d) ==
    LET q == n \div d
        r == n % d
    IN  IF 2 * r < d THEN q
        ELSE IF 2 * r > d THEN q + 1
        ELSE IF q % 2 = 0 THEN q ELSE q + 1

\* ROUND(price / $3) * $3 AS price_bin
PriceBin(price, binSize) == RoundDouble(price, binSize) * binSize

\* WHERE symbol = $1 AND event_time > $2 AND side = ...: the selected rows
QueryRows(symbol, since, side) ==
    {i \in DOMAIN liqEvents :
        /\ liqEvents[i].Symbol = symbol
        /\ liqEvents[i].EventTime > since
        /\ liqEvents[i].Side = side}

\* SUM(usd_value) of the rows of one bin
RECURSIVE SumUSD(_)
SumUSD(rows) ==
    IF rows = {} THEN 0
    ELSE LET i == CHOOSE j \in rows : TRUE
         IN  liqEvents[i].USDValue + SumUSD(rows \ {i})

BinTotal(rows, binSize, bin) ==
    SumUSD({i \in rows : PriceBin(liqEvents[i].Price, binSize) = bin})

\* GROUP BY price_bin ORDER BY total DESC LIMIT 1, scanned into a
\* MaxPainResult: any of the bins with the largest total; no row gives
\* pgx.ErrNoRows and the zero MaxPainResult
QueryMaxPainSide(symbol, since, side, binSize) ==
    LET rows == QueryRows(symbol, since, side)
        bins == {PriceBin(liqEvents[i].Price, binSize) : i \in rows}
    IN  IF rows = {} THEN {MaxPainResult(0, 0)}
        ELSE {MaxPainResult(bin, BinTotal(rows, binSize, bin)) :
                 bin \in {b \in bins :
                             \A c \in bins : BinTotal(rows, binSize, c)
                                                 <= BinTotal(rows, binSize, b)}}

\* Store.QueryMaxPain(ctx, symbol, window, binSize) on a database that
\* answers both queries; the third result is always nil
QueryMaxPain(symbol, window, binSize) ==
    /\ \E longMP \in QueryMaxPainSide(symbol, QueryNow - window, "LONG",
                                      binSize) :
       \E shortMP \in QueryMaxPainSide(symbol, QueryNow - window, "SHORT",
                                       binSize) :
          mpResult' = [symbol |-> symbol, window |-> window,
                       binSize |-> binSize, longMP |-> longMP,
                       shortMP |-> shortMP, err |-> "nil"]
    /\ UNCHANGED <<entries, sources, sourceNames, cleanupPc, abandoned, mu>>
    /\ UNCHANGED ddVars
    /\ UNCHANGED colVars
    /\ UNCHANGED engVars

----------------------------------------------------------------------------
(* internal/monitor/sources/maxpain.go: the MaxPain source and its cache   *)

\* the coins and prices the CoinGlass API may list
CacheSymbols == {"BTC", "ETH"}

CachePrices == {1, 2, 3}

\* what fetchInterval can return without error: a price per listed coin
Responses == UNION {[listed -> CachePrices] : listed \in SUBSET CacheSymbols}

\* the entries a refresh of one interval makes from a response, by cache key
\* strings.ToUpper(e.Symbol) + ":" + interval
Produced(interval, resp) ==
    [key \in {<<sym, interval>> : sym \in DOMAIN resp} |->
        [Symbol |-> key[1], Price |-> resp[key[1]], Interval |-> interval]]

\* for k, v := range allEntries { m.entries[k] = v }
StoreEntries(new) ==
    [key \in DOMAIN entries \cup DOMAIN new |->
        IF key \in DOMAIN new THEN new[key] ELSE entries[key]]

\* MaxPain.FetchSnapshot: fetch the 24h interval; an error returns before
\* the cache is touched
FetchSnapshot ==
    /\ \/ UNCHANGED entries
       \/ \E resp \in Responses :
             entries' = StoreEntries(Produced("24h", resp))
    /\ UNCHANGED <<mpResult, sources, sourceNames, cleanupPc, abandoned, mu>>
    /\ UNCHANGED ddVars
    /\ UNCHANGED colVars
    /\ UNCHANGED engVars

\* MaxPain.ScrapeInterval(interval)
ScrapeInterval(interval) ==
    /\ \/ UNCHANGED entries
       \/ \E resp \in Responses :
             entries' = StoreEntries(Produced(interval, resp))
    /\ UNCHANGED <<mpResult, sources, sourceNames, cleanupPc, abandoned, mu>>
    /\ UNCHANGED ddVars
    /\ UNCHANGED colVars
    /\ UNCHANGED engVars

----------------------------------------------------------------------------
(* internal/monitor/engine.go: Register and SourceNames                    *)

\* the Source values handed to Register: two with every name, told apart by
\* their chain
SourcesOffered ==
    [name : {"src1", "src2", "src3"}, chain : {"Chain1", "Chain2"}]

\* a registry that holds the last registered source only
RegisteredAlone(registry, src) == [n \in {src.name} |-> src]

\* e.sources[src.Name()] = src
Registered(registry, src) ==
    [n \in DOMAIN registry \cup {src.name} |->
        IF n = src.name THEN src ELSE registry[n]]

\* Engine.Register(src)
Register(src) ==
    /\ sources' = Registered(sources, src)
    /\ UNCHANGED <<mpResult, entries, sourceNames, cleanupPc, abandoned, mu>>
    /\ UNCHANGED ddVars
    /\ UNCHANGED colVars
    /\ UNCHANGED engVars

\* for n := range e.sources { names = append(names, n) }: the keys of the
\* map, each once, in the order the map iteration happens to take
KeyOrders(registry) ==
    {order \in [1..Cardinality(DOMAIN registry) -> DOMAIN registry] :
        \A i, j \in DOMAIN order : order[i] = order[j] => i = j}

\* Engine.SourceNames()
SourceNames ==
    /\ sourceNames' \in KeyOrders(sources)
    /\ UNCHANGED <<mpResult, entries, sources, cleanupPc, abandoned, mu>>
    /\ UNCHANGED ddVars
    /\ UNCHANGED colVars
    /\ UNCHANGED engVars

----------------------------------------------------------------------------
(* Deployments: the registered sources, the subscriptions and what the     *)
(* outside offers                                                          *)

\* a fetch result of a source with the single metric tvl
Tvl(v) == [snap |-> [tvl |-> v], opps |-> {}]

NoDeployment ==
    [name |-> "none", sources |-> {}, subs |-> <<>>, fetch |-> <<>>,
     fetchErr |-> {}, clockAdv |-> {0}, turtleLive |-> {{}}, unsubs |-> {}]

\* one value alert, the values of the re-arm scenario (50000 = 500000 tenths)
ValueScenario ==
    [name |-> "value-scenario", sources |-> {"altura"},
     subs |-> << Row(1, 123, <<"altura", "metric_alert">>, 10, 1, "higher", 8,
                     500000, <<>>) >>,
     fetch |-> [n \in {"altura"} |->
                  {Tvl(480000), Tvl(490000), Tvl(510000), Tvl(520000)}],
     fetchErr |-> {}, clockAdv |-> {0}, turtleLive |-> {{}}, unsubs |-> {}]

\* one chat with value alerts above 1.2 and above 1.4 on the same source, a
\* second chat with a value alert below 1.4; the source may fail
ValueAlerts ==
    [name |-> "value-alerts", sources |-> {"altura"},
     subs |-> << Row(1, 123, <<"altura", "metric_alert">>, 10, 1, "higher", 8,
                     12, <<>>),
                 Row(2, 123, <<"altura", "metric_alert">>, 10, 1, "higher", 8,
                     14, <<>>),
                 Row(3, 23, <<"altura", "metric_alert">>, 10, 1, "lower", 8,
                     14, <<>>) >>,
     fetch |-> [n \in {"altura"} |-> {Tvl(10), Tvl(13), Tvl(15)}],
     fetchErr |-> {"altura"}, clockAdv |-> {0}, turtleLive |-> {{}},
     unsubs |-> {}]

\* one chat with drop alerts of 10% and of 20% over one cycle, a second chat
\* with an increase alert of 10% over two cycles
MetricAlerts ==
    [name |-> "metric-alerts", sources |-> {"altura"},
     subs |-> << Row(1, 123, <<"altura", "metric_alert">>, 10, 1, "drop", 8,
                     0, <<>>),
                 Row(2, 123, <<"altura", "metric_alert">>, 20, 1, "drop", 8,
                     0, <<>>),
                 Row(3, 23, <<"altura", "metric_alert">>, 10, 2, "increase", 8,
                     0, <<>>) >>,
     fetch |-> [n \in {"altura"} |-> {Tvl(0), Tvl(10), Tvl(13), Tvl(15)}],
     fetchErr |-> {}, clockAdv |-> {0}, turtleLive |-> {{}}, unsubs |-> {}]

\* two chats with the 8 o'clock digest of one source; the second chat also
\* holds a percentage alert, which it may unsubscribe from
Digests ==
    [name |-> "digests", sources |-> {"altura"},
     subs |-> << Row(1, 123, <<"altura", "daily_report">>, 10, 1, "drop", 8,
                     0, <<>>),
                 Row(2, 23, <<"altura", "daily_report">>, 10, 1, "drop", 8,
                     0, <<>>),
                 Row(3, 23, <<"altura", "metric_alert">>, 10, 1, "drop", 8,
                     0, <<>>) >>,
     fetch |-> [n \in {"altura"} |-> {Tvl(10)}],
     fetchErr |-> {}, clockAdv |-> {0, 1}, turtleLive |-> {{}},
     unsubs |-> {3}]

MerklA ==
    [ID |-> "oppA", APR |-> 200, TVL |-> 2000000, Action |-> "LEND",
     Stablecoin |-> TRUE]

MerklB ==
    [ID |-> "oppB", APR |-> 80, TVL |-> 5000000, Action |-> "BORROW",
     Stablecoin |-> FALSE]

MerklC ==
    [ID |-> "oppC", APR |-> 150, TVL |-> 3000000, Action |-> "BORROW",
     Stablecoin |-> FALSE]

TurtleA ==
    [ID |-> "oppA", Status |-> "active", TVL |-> 2000000, Yield |-> 120,
     Stablecoin |-> TRUE, BTC |-> FALSE, ETH |-> FALSE, Tags |-> {"lending"}]

TurtleB ==
    [ID |-> "oppB", Status |-> "paused", TVL |-> 9000000, Yield |-> 300,
     Stablecoin |-> FALSE, BTC |-> TRUE, ETH |-> FALSE, Tags |-> {"vault"}]

\* Merkl.FetchSnapshot: the opportunities become the cache, the snapshot
\* holds their number and the highest APR
MerklFetch(opps) ==
    [snap |-> [opportunities |-> Cardinality(opps) * 10,
               top_apr |-> IF opps = {} THEN 0
                           ELSE CHOOSE a \in {o.APR : o \in opps} :
                                    \A o \in opps : o.APR <= a],
     opps |-> opps]

\* Turtle.FetchSnapshot: number and highest yield of the opportunities that
\* pass filterOpportunities(opps, 5, 500000)
TurtleFetch(opps) ==
    LET filtered == filterOpportunities(opps, 50, 500000)
    IN  [snap |-> [turtle_opportunities |-> Cardinality(filtered) * 10,
                   turtle_top_yield |->
                       IF filtered = {} THEN 0
                       ELSE CHOOSE y \in {o.Yield : o \in filtered} :
                                \A o \in filtered : o.Yield <= y],
         opps |-> {}]

\* both opportunity sources registered; chat 123 takes every Merkl and every
\* Turtle opportunity with the default minimums, chat 23 takes stablecoin
\* lending on Merkl above 15% and may unsubscribe
Opportunities ==
    [name |-> "opportunities", sources |-> {"merkl", "turtle"},
     subs |-> << Row(1, 123, <<"general", "merkl_alert">>, 0, 1, "", 8, 0,
                     <<>>),
                 Row(2, 23, <<"general", "merkl_alert">>, 1, 1, "stablecoin",
                     8, 150, <<"lend">>),
                 Row(3, 123, <<"general", "turtle_alert">>, 0, 1, "", 8, 0,
                     <<>>) >>,
     fetch |-> [n \in {"merkl", "turtle"} |->
                  IF n = "merkl"
                  THEN {MerklFetch({MerklA, MerklB}),
                        MerklFetch({MerklA, MerklB, MerklC})}
                  ELSE {TurtleFetch({TurtleA, TurtleB})}],
     fetchErr |-> {}, clockAdv |-> {0},
     turtleLive |-> {{TurtleA, TurtleB}, {TurtleB}},
     unsubs |-> {2}]

\* two sources, each with one value alert; either fetch may fail or time out
TwoSources ==
    [name |-> "two-sources", sources |-> {"altura", "neverland"},
     subs |-> << Row(1, 123, <<"altura", "metric_alert">>, 10, 1, "higher", 8,
                     12, <<>>),
                 Row(2, 23, <<"neverland", "metric_alert">>, 10, 1, "lower", 8,
                     14, <<>>) >>,
     fetch |-> [n \in {"altura", "neverland"} |->
                  IF n = "altura" THEN {Tvl(15)} ELSE {Tvl(10)}],
     fetchErr |-> {"altura", "neverland"}, clockAdv |-> {0},
     turtleLive |-> {{}}, unsubs |-> {}]

\* an engine that has been polling one source for 59 minutes (the retained
\* snapshots are told apart by their value); the fetch may fail
LongRun ==
    [name |-> "long-run", sources |-> {"altura"}, subs |-> <<>>,
     fetch |-> [n \in {"altura"} |-> {Tvl(100), Tvl(200)}],
     fetchErr |-> {"altura"}, clockAdv |-> {0}, turtleLive |-> {{}},
     unsubs |-> {},
     warm |-> [i \in 1..(maxHistoryLen - 1) |-> [tvl |-> i]]]

\* two chats with the 8 o'clock digest of one source, the clock stays in
\* that hour, and the send to either chat may fail
DigestFaults ==
    [name |-> "digest-faults", sources |-> {"altura"},
     subs |-> << Row(1, 123, <<"altura", "daily_report">>, 10, 1, "drop", 8,
                     0, <<>>),
                 Row(2, 23, <<"altura", "daily_report">>, 10, 1, "drop", 8,
                     0, <<>>) >>,
     fetch |-> [n \in {"altura"} |-> {Tvl(10)}],
     fetchErr |-> {}, clockAdv |-> {0}, turtleLive |-> {{}}, unsubs |-> {},
     sendFail |-> {123, 23}]

\* an engine that has been polling one source for 59 minutes at a constant
\* value, and a chat with an increase alert of 10% over 60 minutes; from now
\* on the source reports twice the value
WideWindow ==
    [name |-> "wide-window", sources |-> {"altura"},
     subs |-> << Row(1, 123, <<"altura", "metric_alert">>, 10, maxHistoryLen,
                     "increase", 8, 0, <<>>) >>,
     fetch |-> [n \in {"altura"} |-> {Tvl(20)}],
     fetchErr |-> {}, clockAdv |-> {0}, turtleLive |-> {{}}, unsubs |-> {},
     warm |-> [i \in 1..(maxHistoryLen - 1) |-> [tvl |-> 10]]]

\* one chat with a value alert whose condition holds in every cycle; the
\* messenger may refuse the send
AlertSendFaults ==
    [name |-> "alert-send-faults", sources |-> {"altura"},
     subs |-> << Row(1, 123, <<"altura", "metric_alert">>, 0, 1, "higher", 8,
                     12, <<>>) >>,
     fetch |-> [n \in {"altura"} |-> {Tvl(15)}],
     fetchErr |-> {}, clockAdv |-> {0}, turtleLive |-> {{}}, unsubs |-> {},
     sendFail |-> {123}]

\* one chat with the 8 o'clock digests of two sources; FetchDailyReport of
\* the first may never return, that of the second may return an error
DigestFetchFaults ==
    [name |-> "digest-fetch-faults", sources |-> {"altura", "neverland"},
     subs |-> << Row(1, 123, <<"altura", "daily_report">>, 10, 1, "drop", 8,
                     0, <<>>),
                 Row(2, 123, <<"neverland", "daily_report">>, 10, 1, "drop", 8,
                     0, <<>>) >>,
     fetch |-> [n \in {"altura", "neverland"} |-> {Tvl(10)}],
     fetchErr |-> {}, clockAdv |-> {0}, turtleLive |-> {{}}, unsubs |-> {},
     reportErr |-> {"neverland"}, reportHang |-> {"altura"}]

\* GetEntry results: no entry, an entry without a price, and entries with
\* the price at 100.0 and the long / short levels at 1%, 2% or 3% from it
Entry(ok, price, long, short) ==
    [ok |-> ok, Price |-> price, MaxLongLiquidationPrice |-> long,
     MaxShortLiquidationPrice |-> short]

\* one chat with max-pain alerts on BTC: long side at the default 1% on the
\* 24h interval, short side at 2% on the 12h interval; a row without a coin
\* and a row with a direction that is neither long nor short
MaxPain ==
    [name |-> "max-pain", sources |-> {"maxpain"},
     subs |-> << Row(1, 123, <<"general", "maxpain_alert">>, 0, 1, "long", 8,
                     0, <<"btc">>),
                 Row(2, 123, <<"general", "maxpain_alert">>, 0, 720, "SHORT",
                     8, 20, <<"btc">>),
                 Row(3, 123, <<"general", "maxpain_alert">>, 0, 1, "long", 8,
                     0, <<>>),
                 Row(4, 123, <<"general", "maxpain_alert">>, 0, 1, "drop", 8,
                     0, <<"btc">>) >>,
     fetch |-> [n \in {"maxpain"} |-> {Tvl(10)}],
     fetchErr |-> {}, clockAdv |-> {0}, turtleLive |-> {{}}, unsubs |-> {},
     maxpainEntries |-> {Entry(FALSE, 0, 0, 0), Entry(TRUE, 0, 990, 1020),
                         Entry(TRUE, 1000, 990, 0),
                         Entry(TRUE, 1000, 980, 1020),
                         Entry(TRUE, 1000, 0, 1030)}]

\* one chat with a value alert above 1.2, and a dedup store that may become
\* unreachable at any time
Outage ==
    [name |-> "outage", sources |-> {"altura"},
     subs |-> << Row(1, 123, <<"altura", "metric_alert">>, 10, 1, "higher", 8,
                     12, <<>>) >>,
     fetch |-> [n \in {"altura"} |-> {Tvl(10), Tvl(15)}],
     fetchErr |-> {}, clockAdv |-> {0}, turtleLive |-> {{}}, unsubs |-> {},
     outage |-> TRUE]

\* one chat with the 8 o'clock digest, and a dedup store that may become
\* unreachable at any time
OutageDigest ==
    [name |-> "outage-digest", sources |-> {"altura"},
     subs |-> << Row(1, 123, <<"altura", "daily_report">>, 10, 1, "drop", 8,
                     0, <<>>) >>,
     fetch |-> [n \in {"altura"} |-> {Tvl(10)}],
     fetchErr |-> {}, clockAdv |-> {0}, turtleLive |-> {{}}, unsubs |-> {},
     outage |-> TRUE]

\* one chat with a value alert above 1.2, which it may unsubscribe from, and
\* a dedup store that may become unreachable at any time
OutageUnsubscribe ==
    [name |-> "outage-unsubscribe", sources |-> {"altura"},
     subs |-> << Row(1, 123, <<"altura", "metric_alert">>, 10, 1, "higher", 8,
                     12, <<>>) >>,
     fetch |-> [n \in {"altura"} |-> {Tvl(15)}],
     fetchErr |-> {}, clockAdv |-> {0}, turtleLive |-> {{}}, unsubs |-> {1},
     outage |-> TRUE]

\* a snapshot with two metrics
TvlApr(v, a) == [snap |-> [tvl |-> v, top_apr |-> a], opps |-> {}]

\* one percentage alert over a window of two cycles on a source whose
\* snapshots do not always carry the second metric
MetricGaps ==
    [name |-> "metric-gaps", sources |-> {"altura"},
     subs |-> << Row(1, 123, <<"altura", "metric_alert">>, 10, 2, "drop", 8,
                     0, <<>>) >>,
     fetch |-> [n \in {"altura"} |-> {Tvl(10), TvlApr(8, 5), TvlApr(8, 4)}],
     fetchErr |-> {}, clockAdv |-> {0}, turtleLive |-> {{}}, unsubs |-> {}]

\* one value alert on a source whose fetch may time out
SlowFetch ==
    [name |-> "slow-fetch", sources |-> {"altura"},
     subs |-> << Row(1, 123, <<"altura", "metric_alert">>, 10, 1, "higher", 8,
                     12, <<>>) >>,
     fetch |-> [n \in {"altura"} |-> {Tvl(15)}],
     fetchErr |-> {}, clockAdv |-> {0}, turtleLive |-> {{}}, unsubs |-> {},
     fetchSlow |-> {"altura"}]

\* two sources with a value alert each; the subscriber lookup of the first
\* may fail in any cycle
LookupFaults ==
    [name |-> "lookup-faults", sources |-> {"altura", "neverland"},
     subs |-> << Row(1, 123, <<"altura", "metric_alert">>, 10, 1, "higher", 8,
                     12, <<>>),
                 Row(2, 23, <<"neverland", "metric_alert">>, 10, 1, "higher",
                     8, 12, <<>>) >>,
     fetch |-> [n \in {"altura", "neverland"} |-> {Tvl(15)}],
     fetchErr |-> {}, clockAdv |-> {0}, turtleLive |-> {{}}, unsubs |-> {},
     lookupErr |-> {"altura"}]

\* two sources whose fetches may fail, and one chat with a max-pain alert on
\* the long side of BTC; the cache holds a level within 1% of the price
CrossCut ==
    [name |-> "cross-cut", sources |-> {"altura", "maxpain"},
     subs |-> << Row(1, 123, <<"general", "maxpain_alert">>, 0, 1, "long", 8,
                     0, <<"btc">>) >>,
     fetch |-> [n \in {"altura", "maxpain"} |-> {Tvl(10)}],
     fetchErr |-> {"altura", "maxpain"}, clockAdv |-> {0},
     turtleLive |-> {{}}, unsubs |-> {},
     maxpainEntries |-> {Entry(TRUE, 1000, 995, 1020)}]

Deployments == {ValueScenario, ValueAlerts, MetricAlerts, Digests,
                Opportunities, TwoSources, LongRun, DigestFaults,
                DigestFetchFaults, MaxPain, Outage,
                OutageDigest, OutageUnsubscribe, MetricGaps, SlowFetch,
                LookupFaults, CrossCut, AlertSendFaults, WideWindow}

----------------------------------------------------------------------------
(* The Deduplicator driven through its API (dedup_test.go)                 *)

TestKeys ==
    { <<"alert", ":", "1", "2", "3", ":", "metric1">>,
      <<"alert", ":", "1", "2", "3", ":", "metric2">>,
      <<"alert", ":", "4", "5", "6", ":", "metric1">>,
      <<"any", ":", "key">> }

TestPatterns ==
    { <<"alert", ":", "1", "2", "3", ":", "*">>,
      <<"*", "metric1">>,
      <<"*", "4", "5", "6", ":", "*">> }

CallAlreadySent(key) ==
    /\ ddPrev' = [op |-> ddLast.op, key |-> ddLast.key, up |-> ddLast.up]
    /\ ddLast' = [op |-> "AlreadySent", key |-> key, up |-> redisUp,
                  ret |-> AlreadySent(key), before |-> redis, seen |-> ddLast.seen]
    /\ UNCHANGED <<redis, redisUp>>
    /\ UNCHANGED colVars
    /\ UNCHANGED engVars
    /\ UNCHANGED otherVars

CallRecord(key) ==
    /\ redis' = Record(key)
    /\ ddPrev' = [op |-> ddLast.op, key |-> ddLast.key, up |-> ddLast.up]
    /\ ddLast' = [op |-> "Record", key |-> key, up |-> redisUp,
                  ret |-> FALSE, before |-> redis,
                  seen |-> ddLast.seen \cup {key}]
    /\ UNCHANGED redisUp
    /\ UNCHANGED colVars
    /\ UNCHANGED engVars
    /\ UNCHANGED otherVars

CallClear(key) ==
    /\ redis' = Clear(key)
    /\ ddPrev' = [op |-> ddLast.op, key |-> ddLast.key, up |-> ddLast.up]
    /\ ddLast' = [op |-> "Clear", key |-> key, up |-> redisUp,
                  ret |-> FALSE, before |-> redis, seen |-> ddLast.seen]
    /\ UNCHANGED redisUp
    /\ UNCHANGED colVars
    /\ UNCHANGED engVars
    /\ UNCHANGED otherVars

CallClearByPattern(pattern) ==
    /\ redis' = ClearByPattern(pattern)
    /\ ddPrev' = [op |-> ddLast.op, key |-> ddLast.key, up |-> ddLast.up]
    /\ ddLast' = [op |-> "ClearByPattern", key |-> pattern, up |-> redisUp,
                  ret |-> FALSE, before |-> redis, seen |-> ddLast.seen]
    /\ UNCHANGED redisUp
    /\ UNCHANGED colVars
    /\ UNCHANGED engVars
    /\ UNCHANGED otherVars

\* miniredis is closed / restarted with its data (TestAlreadySentFailClosed)
RedisDown ==
    /\ redisUp
    /\ redisUp' = FALSE
    /\ UNCHANGED <<redis, ddLast, ddPrev>>
    /\ UNCHANGED colVars
    /\ UNCHANGED engVars
    /\ UNCHANGED otherVars

RedisBack ==
    /\ ~redisUp
    /\ redisUp' = TRUE
    /\ UNCHANGED <<redis, ddLast, ddPrev>>
    /\ UNCHANGED colVars
    /\ UNCHANGED engVars
    /\ UNCHANGED otherVars

\* the dedup store becomes unreachable to the engine, in the deployments
\* that have outages
StoreDown ==
    /\ "outage" \in DOMAIN cfg
    /\ eng.pc # "returned"
    /\ RedisDown

\* the dedup store is reachable again
StoreBack ==
    /\ "outage" \in DOMAIN cfg
    /\ eng.pc # "returned"
    /\ RedisBack

InitCollector ==
    /\ redis = {}
    /\ redisUp = TRUE
    /\ ddLast = NoCall
    /\ ddPrev = NoPrev
    /\ buffer = <<>>
    /\ liqEvents = <<>>
    /\ ctxDone = FALSE
    /\ runPc = "backfill"
    /\ backoff = reconnectBase
    /\ flushPc = [f \in Flushers |-> IF f = "ticker" THEN "wait" ELSE "idle"]
    /\ flushBatch = [f \in Flushers |-> <<>>]
    /\ accepted = 0
    /\ failedFlushes = 0
    /\ cfg = NoDeployment
    /\ subs = <<>>
    /\ snapHistory = <<>>
    /\ merklOpps = {}
    /\ eng = EngIdle("returned", 0)
    /\ clock = StartClock
    /\ trace = <<>>
    /\ outbox = <<>>
    /\ unsubbed = {}
    /\ mpResult = NoResult
    /\ entries = <<>>
    /\ sources = <<>>
    /\ sourceNames = <<>>
    /\ cleanupPc = "returned"
    /\ abandoned = {}
    /\ mu = NoLocks

NextCollector ==
    \/ RunBackfill
    \/ RunLoopTop
    \/ Dial
    \/ \E m \in Messages : handleMessage(m)
    \/ ReadError
    \/ RunAfterRead
    \/ RunBackoff
    \/ Cancel
    \/ FlushTick
    \/ \E f \in Flushers : FlushInsertOk(f)
    \/ \E f \in Flushers : FlushInsertFail(f)
    \/ \E f \in Flushers : FlushReturn(f)

InitDedup ==
    /\ redis = {}
    /\ redisUp = TRUE
    /\ ddLast = NoCall
    /\ ddPrev = NoPrev
    /\ buffer = <<>>
    /\ liqEvents = <<>>
    /\ ctxDone = FALSE
    /\ runPc = "backfill"
    /\ backoff = reconnectBase
    /\ flushPc = [f \in Flushers |-> IF f = "ticker" THEN "wait" ELSE "idle"]
    /\ flushBatch = [f \in Flushers |-> <<>>]
    /\ accepted = 0
    /\ failedFlushes = 0
    /\ cfg = NoDeployment
    /\ subs = <<>>
    /\ snapHistory = <<>>
    /\ merklOpps = {}
    /\ eng = EngIdle("returned", 0)
    /\ clock = StartClock
    /\ trace = <<>>
    /\ outbox = <<>>
    /\ unsubbed = {}
    /\ mpResult = NoResult
    /\ entries = <<>>
    /\ sources = <<>>
    /\ sourceNames = <<>>
    /\ cleanupPc = "returned"
    /\ abandoned = {}
    /\ mu = NoLocks

NextDedup ==
    \/ \E k \in TestKeys : CallAlreadySent(k)
    \/ \E k \in TestKeys : CallRecord(k)
    \/ \E k \in TestKeys : CallClear(k)
    \/ \E p \in TestPatterns : CallClearByPattern(p)
    \/ RedisDown
    \/ RedisBack

Init ==
    /\ redis = {}
    /\ redisUp = TRUE
    /\ ddLast = NoCall
    /\ ddPrev = NoPrev
    /\ buffer = <<>>
    /\ liqEvents = <<>>
    /\ ctxDone = FALSE
    /\ runPc = "returned"
    /\ backoff = reconnectBase
    /\ flushPc = [f \in Flushers |-> "idle"]
    /\ flushBatch = [f \in Flushers |-> <<>>]
    /\ accepted = 0
    /\ failedFlushes = 0
    /\ cfg \in Deployments
    /\ subs = cfg.subs
    /\ snapHistory = [n \in cfg.sources |->
                         IF "warm" \in DOMAIN cfg THEN cfg.warm ELSE <<>>]
    /\ merklOpps = {}
    /\ eng = IF "warm" \in DOMAIN cfg THEN EngIdle("idle", 0)
             ELSE EngIdle("start", 0)
    /\ clock = StartClock
    /\ trace = [i \in {cfg.subs[k].id : k \in DOMAIN cfg.subs} |-> <<>>]
    /\ outbox = <<>>
    /\ unsubbed = {}
    /\ mpResult = NoResult
    /\ entries = <<>>
    /\ sources = <<>>
    /\ sourceNames = <<>>
    /\ cleanupPc = "returned"
    /\ abandoned = {}
    /\ mu = NoLocks

Next ==
    \/ RunStart
    \/ RunTick
    \/ RunStop
    \/ \E name \in cfg.sources : PollSource(name)
    \/ EvalMetric
    \/ EvalSend
    \/ checkMaxpainAlerts
    \/ MaxpainEval
    \/ MaxpainSend
    \/ checkMerklAlerts
    \/ MerklCollect
    \/ MerklSend
    \/ checkTurtleAlerts
    \/ TurtleCollect
    \/ TurtleSend
    \/ checkBinancePriceAlerts
    \/ \E name \in cfg.sources : ReportSource(name)
    \/ ReportCheck
    \/ ReportSend
    \/ ReportsDone
    \/ \E id \in cfg.unsubs : Unsubscribe(id)
    \/ StoreDown
    \/ StoreBack
    \/ CancelEngine
    \/ LateFetch

Spec == Init /\ [][Next]_vars

\* QueryMaxPain called on tables of up to MaxRows rows
InitQuery ==
    /\ redis = {}
    /\ redisUp = TRUE
    /\ ddLast = NoCall
    /\ ddPrev = NoPrev
    /\ buffer = <<>>
    /\ liqEvents \in UNION {[1..n -> QueryRowsOffered] : n \in 0..MaxRows}
    /\ ctxDone = FALSE
    /\ runPc = "returned"
    /\ backoff = reconnectBase
    /\ flushPc = [f \in Flushers |-> "idle"]
    /\ flushBatch = [f \in Flushers |-> <<>>]
    /\ accepted = 0
    /\ failedFlushes = 0
    /\ cfg = NoDeployment
    /\ subs = <<>>
    /\ snapHistory = <<>>
    /\ merklOpps = {}
    /\ eng = EngIdle("returned", 0)
    /\ clock = StartClock
    /\ trace = <<>>
    /\ outbox = <<>>
    /\ unsubbed = {}
    /\ mpResult = NoResult
    /\ entries = <<>>
    /\ sources = <<>>
    /\ sourceNames = <<>>
    /\ cleanupPc = "returned"
    /\ abandoned = {}
    /\ mu = NoLocks

NextQuery ==
    \E symbol \in {"BTC", "ETH"} : \E window \in {5, 7} :
        QueryMaxPain(symbol, window, 100)

SpecQuery == InitQuery /\ [][NextQuery]_vars

\* the MaxPain source after NewMaxPain, refreshed by the engine's calls
InitMaxPain ==
    /\ redis = {}
    /\ redisUp = TRUE
    /\ ddLast = NoCall
    /\ ddPrev = NoPrev
    /\ buffer = <<>>
    /\ liqEvents = <<>>
    /\ ctxDone = FALSE
    /\ runPc = "returned"
    /\ backoff = reconnectBase
    /\ flushPc = [f \in Flushers |-> "idle"]
    /\ flushBatch = [f \in Flushers |-> <<>>]
    /\ accepted = 0
    /\ failedFlushes = 0
    /\ cfg = NoDeployment
    /\ subs = <<>>
    /\ snapHistory = <<>>
    /\ merklOpps = {}
    /\ eng = EngIdle("returned", 0)
    /\ clock = StartClock
    /\ trace = <<>>
    /\ outbox = <<>>
    /\ unsubbed = {}
    /\ mpResult = NoResult
    /\ entries = <<>>
    /\ sources = <<>>
    /\ sourceNames = <<>>
    /\ cleanupPc = "returned"
    /\ abandoned = {}
    /\ mu = NoLocks

NextMaxPain ==
    \/ FetchSnapshot
    \/ \E interval \in {"12h", "48h"} : ScrapeInterval(interval)

SpecMaxPain == InitMaxPain /\ [][NextMaxPain]_vars

\* an engine after NewEngine on which sources are registered and listed
InitRegister ==
    /\ redis = {}
    /\ redisUp = TRUE
    /\ ddLast = NoCall
    /\ ddPrev = NoPrev
    /\ buffer = <<>>
    /\ liqEvents = <<>>
    /\ ctxDone = FALSE
    /\ runPc = "returned"
    /\ backoff = reconnectBase
    /\ flushPc = [f \in Flushers |-> "idle"]
    /\ flushBatch = [f \in Flushers |-> <<>>]
    /\ accepted = 0
    /\ failedFlushes = 0
    /\ cfg = NoDeployment
    /\ subs = <<>>
    /\ snapHistory = <<>>
    /\ merklOpps = {}
    /\ eng = EngIdle("returned", 0)
    /\ clock = StartClock
    /\ trace = <<>>
    /\ outbox = <<>>
    /\ unsubbed = {}
    /\ mpResult = NoResult
    /\ entries = <<>>
    /\ sources = <<>>
    /\ sourceNames = <<>>
    /\ cleanupPc = "returned"
    /\ abandoned = {}
    /\ mu = NoLocks

NextRegister ==
    \/ \E src \in SourcesOffered : Register(src)
    \/ SourceNames

SpecRegister == InitRegister /\ [][NextRegister]_vars

SpecDedup == InitDedup /\ [][NextDedup]_vars

SpecCollector == InitCollector /\ [][NextCollector]_vars

\* the collector with the progress the Go scheduler and the timer give the
\* goroutine of Run: the statements after connectAndRead run once it has
\* returned, time.After(backoff) fires, and the loop head runs; nothing
\* forces a dial or a read to fail, messages to arrive or ctx to be cancelled
SpecCollectorLive ==
    /\ InitCollector
    /\ [][NextCollector]_vars
    /\ WF_vars(RunAfterRead)
    /\ WF_vars(RunBackoff)
    /\ WF_vars(RunLoopTop)

\* flushLoop under its scheduling: the 5 s ticker keeps firing while the loop
\* waits, an insert in flight returns (committed or with an error), and flush
\* returns to the loop; the store refuses at most MaxFlushFails inserts
SpecCollectorPersist ==
    /\ InitCollector
    /\ [][NextCollector]_vars
    /\ WF_vars(FlushTick)
    /\ WF_vars(FlushInsertOk("ticker") \/ FlushInsertFail("ticker"))
    /\ WF_vars(FlushReturn("ticker"))

\* the whole process: main hands one context to Engine.Run and Collector.Run,
\* and Collector.Run starts flushLoop and cleanupLoop on it; the engine polls
\* one source and nobody is subscribed. The process has been up for a while:
\* the engine is between two poll cycles, the collector is connected after
\* four reconnects, and all but the last event of the run are persisted
Quiet ==
    [name |-> "quiet", sources |-> {"altura"}, subs |-> <<>>,
     fetch |-> [n \in {"altura"} |-> {Tvl(10)}], fetchErr |-> {},
     clockAdv |-> {0}, turtleLive |-> {{}}, unsubs |-> {}]

\* the frame the process reads: a liquidation order
Frames ==
    {m \in Messages : /\ m.e = "forceOrder"
                      /\ m.S = "SELL"
                      /\ m.ap = 2 /\ m.p = 2 /\ m.z = 1 /\ m.q = 1}

\* a row of more than 30 days ago
Stale ==
    [seq |-> 0, Symbol |-> "BTC", Side |-> "LONG", Price |-> 2, Quantity |-> 1,
     USDValue |-> 2, stale |-> TRUE]

\* the rows of the table when the model starts
Persisted ==
    <<Stale>> \o [i \in 1..(MaxEvents - 1) |->
                    ParseMessage(CHOOSE m \in Frames : TRUE, i)[1]]

InitProcess ==
    /\ redis = {}
    /\ redisUp = TRUE
    /\ ddLast = NoCall
    /\ ddPrev = NoPrev
    /\ buffer = <<>>
    /\ liqEvents = Persisted
    /\ ctxDone = FALSE
    /\ runPc = "connected"
    /\ backoff = reconnectBase * 16
    /\ flushPc = [f \in Flushers |-> IF f = "ticker" THEN "wait" ELSE "idle"]
    /\ flushBatch = [f \in Flushers |-> <<>>]
    /\ accepted = MaxEvents - 1
    /\ failedFlushes = MaxFlushFails - 1
    /\ cfg = Quiet
    /\ subs = cfg.subs
    /\ snapHistory = [n \in cfg.sources |->
                         [i \in 1..(MaxCycles - 2) |-> [tvl |-> 10]]]
    /\ merklOpps = {}
    /\ eng = EngIdle("idle", MaxCycles - 2)
    /\ clock = StartClock
    /\ trace = <<>>
    /\ outbox = <<>>
    /\ unsubbed = {}
    /\ mpResult = NoResult
    /\ entries = <<>>
    /\ sources = <<>>
    /\ sourceNames = <<>>
    /\ cleanupPc = "wait"
    /\ abandoned = {}
    /\ mu = NoLocks

\* pollAll and sendDueReports, one step of either
EngineStep ==
    \/ \E name \in cfg.sources : PollSource(name)
    \/ checkMaxpainAlerts
    \/ checkMerklAlerts
    \/ checkTurtleAlerts
    \/ checkBinancePriceAlerts
    \/ \E name \in cfg.sources : ReportSource(name)
    \/ ReportsDone

NextProcess ==
    \/ RunLoopTop
    \/ Dial
    \/ \E m \in Frames : handleMessage(m)
    \/ ReadError
    \/ RunAfterRead
    \/ RunBackoff
    \/ Cancel
    \/ FlushTick
    \/ \E f \in Flushers : FlushInsertOk(f)
    \/ \E f \in Flushers : FlushInsertFail(f)
    \/ \E f \in Flushers : FlushReturn(f)
    \/ CleanupTick
    \/ CleanupDone
    \/ RunTick
    \/ RunStop
    \/ EngineStep

\* every call returns and every goroutine is scheduled: a read on a
\* cancelled context returns, a dial and an insert return, the statements
\* of each loop run; a select whose ctx.Done() case is ready again and again
\* takes it at some point (Go picks among the ready cases at random)
FairProcess ==
    /\ WF_vars(RunLoopTop)
    /\ WF_vars(Dial)
    /\ WF_vars(ctxDone /\ ReadError)
    /\ WF_vars(RunAfterRead)
    /\ WF_vars(RunBackoff)
    /\ \A f \in Flushers :
          /\ WF_vars(FlushInsertOk(f) \/ FlushInsertFail(f))
          /\ WF_vars(FlushReturn(f))
    /\ SF_vars(FlushTick /\ flushPc'["ticker"] = "returned")
    /\ WF_vars(CleanupDone)
    /\ SF_vars(CleanupTick /\ cleanupPc' = "returned")
    /\ WF_vars(EngineStep)
    /\ SF_vars(RunStop)

SpecProcess == InitProcess /\ [][NextProcess]_vars /\ FairProcess

----------------------------------------------------------------------------
(* The two mutexes: Engine.mu around snapHistory (engine.go), Collector.mu  *)
(* around the buffer (collector.go), with every Lock and Unlock a step     *)

noMuVars == <<mpResult, entries, sources, sourceNames, cleanupPc, abandoned>>

\* a goroutine that leaves without Unlock
UnlockForgotten(l, g) == l

\* mu.Unlock() / mu.RUnlock() by goroutine g
Unlock(l, g) == [l EXCEPT !.w = @ \ {g}, !.r = @ \ {g}]

\* handleMessage, c.mu.Lock() once the frame has parsed to an event
MuHandleLock ==
    /\ runPc = "connected"
    /\ accepted < MaxEvents
    /\ mu.collector.w = {}
    /\ mu' = [mu EXCEPT !.collector.w = {"reader"}]
    /\ runPc' = "append"
    /\ UNCHANGED <<buffer, liqEvents, ctxDone, backoff, flushPc, flushBatch,
                   accepted, failedFlushes>>
    /\ UNCHANGED <<ddVars, engVars, noMuVars>>

\* handleMessage, c.buffer = append(c.buffer, ...); c.mu.Unlock()
MuHandleAppend ==
    /\ runPc = "append"
    /\ \E m \in Frames :
          LET evs == ParseMessage(m, accepted + 1)
          IN  /\ buffer' = buffer \o evs
              /\ accepted' = accepted + Len(evs)
    /\ mu' = [mu EXCEPT !.collector = Unlock(@, "reader")]
    /\ runPc' = "connected"
    /\ UNCHANGED <<liqEvents, ctxDone, backoff, flushPc, flushBatch,
                   failedFlushes>>
    /\ UNCHANGED <<ddVars, engVars, noMuVars>>

\* flush called by flushLoop, c.mu.Lock() at its head or before the re-prepend
MuFlushLock ==
    /\ flushPc["ticker"] \in {"wait", "relock"}
    /\ mu.collector.w = {}
    /\ mu' = [mu EXCEPT !.collector.w = {"ticker"}]
    /\ flushPc' = [flushPc EXCEPT !["ticker"] =
                      IF @ = "wait" THEN "take" ELSE "prepend"]
    /\ UNCHANGED <<buffer, liqEvents, ctxDone, runPc, backoff, flushBatch,
                   accepted, failedFlushes>>
    /\ UNCHANGED <<ddVars, engVars, noMuVars>>

\* flush, first critical section up to c.mu.Unlock(): return on an empty
\* buffer, else take the buffer and go on to InsertLiquidationEvents
MuFlushTake ==
    /\ flushPc["ticker"] = "take"
    /\ IF buffer = <<>>
       THEN /\ flushPc' = [flushPc EXCEPT !["ticker"] = "wait"]
            /\ UNCHANGED <<buffer, flushBatch>>
       ELSE /\ flushBatch' = [flushBatch EXCEPT !["ticker"] = buffer]
            /\ buffer' = <<>>
            /\ flushPc' = [flushPc EXCEPT !["ticker"] = "insert"]
    /\ mu' = [mu EXCEPT !.collector = Unlock(@, "ticker")]
    /\ UNCHANGED <<liqEvents, ctxDone, runPc, backoff, accepted, failedFlushes>>
    /\ UNCHANGED <<ddVars, engVars, noMuVars>>

\* flush, InsertLiquidationEvents returns: committed, or an error
MuFlushInsert ==
    /\ flushPc["ticker"] = "insert"
    /\ \/ /\ liqEvents' = liqEvents \o flushBatch["ticker"]
          /\ flushBatch' = [flushBatch EXCEPT !["ticker"] = <<>>]
          /\ flushPc' = [flushPc EXCEPT !["ticker"] = "wait"]
          /\ UNCHANGED failedFlushes
       \/ /\ failedFlushes < MaxFlushFails
          /\ failedFlushes' = failedFlushes + 1
          /\ flushPc' = [flushPc EXCEPT !["ticker"] = "relock"]
          /\ UNCHANGED <<liqEvents, flushBatch>>
    /\ UNCHANGED <<buffer, ctxDone, runPc, backoff, accepted, mu>>
    /\ UNCHANGED <<ddVars, engVars, noMuVars>>

\* flush, second critical section: put the batch back and c.mu.Unlock()
MuFlushPrepend ==
    /\ flushPc["ticker"] = "prepend"
    /\ buffer' = Rebuffer(flushBatch["ticker"], buffer)
    /\ flushBatch' = [flushBatch EXCEPT !["ticker"] = <<>>]
    /\ flushPc' = [flushPc EXCEPT !["ticker"] = "wait"]
    /\ mu' = [mu EXCEPT !.collector = Unlock(@, "ticker")]
    /\ UNCHANGED <<liqEvents, ctxDone, runPc, backoff, accepted, failedFlushes>>
    /\ UNCHANGED <<ddVars, engVars, noMuVars>>

\* pollAll, fetchWithTimeout returns the snapshot of the cycle's source
MuFetch ==
    /\ eng.pc = "idle"
    /\ eng.cycle < MaxCycles
    /\ \E name \in cfg.sources : \E got \in cfg.fetch[name] :
          eng' = [eng EXCEPT !.pc = "appendLock", !.cycle = @ + 1,
                             !.src = name, !.pend = <<got.snap>>,
                             !.failed = {}]
    /\ UNCHANGED <<cfg, subs, snapHistory, merklOpps, clock, trace, outbox,
                   unsubbed, mu>>
    /\ UNCHANGED <<ddVars, colVars, noMuVars>>

\* pollAll, e.mu.Lock() before the append and e.mu.RLock() before the read
MuPollLock ==
    /\ eng.pc \in {"appendLock", "rlock"}
    /\ mu.engine.w = {}
    /\ eng.pc = "appendLock" => mu.engine.r = {}
    /\ mu' = IF eng.pc = "appendLock"
             THEN [mu EXCEPT !.engine.w = {"pollAll"}]
             ELSE [mu EXCEPT !.engine.r = @ \cup {"pollAll"}]
    /\ eng' = [eng EXCEPT !.pc = IF @ = "appendLock" THEN "append" ELSE "read"]
    /\ UNCHANGED <<cfg, subs, snapHistory, merklOpps, clock, trace, outbox,
                   unsubbed>>
    /\ UNCHANGED <<ddVars, colVars, noMuVars>>

\* pollAll, the append and trim under the lock, then e.mu.Unlock()
MuAppend ==
    /\ eng.pc = "append"
    /\ snapHistory' = [snapHistory EXCEPT ![eng.src] =
                          Trim(Append(@, eng.pend[1]))]
    /\ mu' = [mu EXCEPT !.engine = Unlock(@, "pollAll")]
    /\ eng' = [eng EXCEPT !.pc = "lookup"]
    /\ UNCHANGED <<cfg, subs, merklOpps, clock, trace, outbox, unsubbed>>
    /\ UNCHANGED <<ddVars, colVars, noMuVars>>

\* pollAll, GetSubscribersWithThresholds returns: an error ends the turn of
\* the source, else the history is read next
MuLookup ==
    /\ eng.pc = "lookup"
    /\ \E ok \in BOOLEAN :
          eng' = IF ok THEN [eng EXCEPT !.pc = "rlock"]
                 ELSE [EngIdle("idle", eng.cycle) EXCEPT !.failed = {eng.src}]
    /\ UNCHANGED <<cfg, subs, snapHistory, merklOpps, clock, trace, outbox,
                   unsubbed, mu>>
    /\ UNCHANGED <<ddVars, colVars, noMuVars>>

\* pollAll, hist := e.snapHistory[name]; e.mu.RUnlock()
MuReadHist ==
    /\ eng.pc = "read"
    /\ mu' = [mu EXCEPT !.engine = Unlock(@, "pollAll")]
    /\ eng' = [eng EXCEPT !.pc = "rules"]
    /\ UNCHANGED <<cfg, subs, snapHistory, merklOpps, clock, trace, outbox,
                   unsubbed>>
    /\ UNCHANGED <<ddVars, colVars, noMuVars>>

\* pollAll, the subscriber loop with its dedup calls and sends has returned
MuRules ==
    /\ eng.pc = "rules"
    /\ eng' = EngIdle("idle", eng.cycle)
    /\ UNCHANGED <<cfg, subs, snapHistory, merklOpps, clock, trace, outbox,
                   unsubbed, mu>>
    /\ UNCHANGED <<ddVars, colVars, noMuVars>>

\* GetSnapshot, called by the stats handler: RLock, read, deferred RUnlock
MuGetSnapshot ==
    /\ \/ /\ mu.engine.w = {}
          /\ "GetSnapshot" \notin mu.engine.r
          /\ mu' = [mu EXCEPT !.engine.r = @ \cup {"GetSnapshot"}]
       \/ /\ "GetSnapshot" \in mu.engine.r
          /\ mu' = [mu EXCEPT !.engine = Unlock(@, "GetSnapshot")]
    /\ UNCHANGED <<ddVars, colVars, engVars, noMuVars>>

\* a process that has been up for a while: the engine is between two poll
\* cycles, the collector is connected and all but the last two events of
\* the run are persisted
InitLocks ==
    /\ redis = {}
    /\ redisUp = TRUE
    /\ ddLast = NoCall
    /\ ddPrev = NoPrev
    /\ buffer = <<>>
    /\ liqEvents = [i \in 1..(MaxEvents - 2) |->
                       ParseMessage(CHOOSE m \in Frames : TRUE, i)[1]]
    /\ ctxDone = FALSE
    /\ runPc = "connected"
    /\ backoff = reconnectBase
    /\ flushPc = [f \in Flushers |-> IF f = "ticker" THEN "wait" ELSE "idle"]
    /\ flushBatch = [f \in Flushers |-> <<>>]
    /\ accepted = MaxEvents - 2
    /\ failedFlushes = MaxFlushFails - 1
    /\ cfg = Quiet
    /\ subs = cfg.subs
    /\ snapHistory = [n \in cfg.sources |->
                         [i \in 1..(MaxCycles - 2) |-> [tvl |-> 10]]]
    /\ merklOpps = {}
    /\ eng = EngIdle("idle", MaxCycles - 2)
    /\ clock = StartClock
    /\ trace = <<>>
    /\ outbox = <<>>
    /\ unsubbed = {}
    /\ mpResult = NoResult
    /\ entries = <<>>
    /\ sources = <<>>
    /\ sourceNames = <<>>
    /\ cleanupPc = "wait"
    /\ abandoned = {}
    /\ mu = NoLocks

NextLocks ==
    \/ MuHandleLock
    \/ MuHandleAppend
    \/ MuFlushLock
    \/ MuFlushTake
    \/ MuFlushInsert
    \/ MuFlushPrepend
    \/ MuFetch
    \/ MuPollLock
    \/ MuAppend
    \/ MuLookup
    \/ MuReadHist
    \/ MuRules
    \/ MuGetSnapshot

SpecLocks == InitLocks /\ [][NextLocks]_vars

----------------------------------------------------------------------------
(* Claims about the Deduplicator, checked under SpecDedup                  *)

\* C7: while Redis is unreachable AlreadySent answers true for every key,
\* also for a key that was never recorded.
C7_FailClosed ==
    (ddLast.op = "AlreadySent" /\ ~ddLast.up) => ddLast.ret = TRUE

\* the first call ever made is AlreadySent on an unseen key, Redis is down
C7_Witness ==
    /\ ddLast.op = "AlreadySent" /\ ~ddLast.up /\ ddLast.ret
    /\ ddPrev.op = "none" /\ ddLast.seen = {} /\ ddLast.before = {}

\* C8: with Redis reachable, Record then AlreadySent on the same key answers
\* true, Clear then AlreadySent answers false, AlreadySent on a key Record was
\* never called on answers false, and a stored key leaves the store only
\* through Clear on it or ClearByPattern with a pattern that matches it.
C8_RecordClearRoundTrip ==
    /\ (/\ ddLast.op = "AlreadySent" /\ ddLast.up
        /\ ddPrev.op = "Record" /\ ddPrev.up /\ ddPrev.key = ddLast.key)
       => ddLast.ret = TRUE
    /\ (/\ ddLast.op = "AlreadySent" /\ ddLast.up
        /\ ddPrev.op = "Clear" /\ ddPrev.up /\ ddPrev.key = ddLast.key)
       => ddLast.ret = FALSE
    /\ (ddLast.op = "AlreadySent" /\ ddLast.up /\ ddLast.key \notin ddLast.seen)
       => ddLast.ret = FALSE
    /\ \A k \in ddLast.before \ redis :
          \/ ddLast.op = "Clear" /\ ddLast.key = k
          \/ ddLast.op = "ClearByPattern" /\ GlobMatch(ddLast.key, k)

\* Record(k) then AlreadySent(k) has answered true; a second key had been
\* recorded as well and was removed again, k is the only key stored
C8_Witness ==
    /\ ddLast.op = "AlreadySent" /\ ddLast.up /\ ddLast.ret
    /\ ddPrev.op = "Record" /\ ddPrev.up /\ ddPrev.key = ddLast.key
    /\ Cardinality(ddLast.seen) >= 2
    /\ redis = {ddLast.key}

\* The keys of TestKeys each pattern of TestPatterns matches, written out
\* (dedup_test.go TestClearByPattern for the first one)
ExpectedMatches(pattern) ==
    IF pattern = <<"alert", ":", "1", "2", "3", ":", "*">>
    THEN { <<"alert", ":", "1", "2", "3", ":", "metric1">>,
           <<"alert", ":", "1", "2", "3", ":", "metric2">> }
    ELSE IF pattern = <<"*", "metric1">>
    THEN { <<"alert", ":", "1", "2", "3", ":", "metric1">>,
           <<"alert", ":", "4", "5", "6", ":", "metric1">> }
    ELSE { <<"alert", ":", "4", "5", "6", ":", "metric1">> }

----------------------------------------------------------------------------
(* Claims about the collector, checked under SpecCollector                 *)

\* the arrival numbers of the events in a slice
Seqs(evs) == {evs[i].seq : i \in DOMAIN evs}

\* a step in which caller f of flush leaves the insert without a commit
FlushFailedStep(f) ==
    /\ flushPc[f] = "insert"
    /\ flushPc'[f] # "insert"
    /\ liqEvents' = liqEvents

\* C10: a failed batch insert puts the whole batch back in front of the live
\* buffer, ahead of the events that arrived during the write, and every event
\* handleMessage accepted is persisted, in the buffer or in a batch being
\* written; with no write in flight it is persisted or in the buffer.
C10_NoLossOnFlushFailure ==
    /\ [][\A f \in Flushers :
            FlushFailedStep(f) => buffer' = flushBatch[f] \o buffer]_vars
    /\ [](1..accepted \subseteq
             Seqs(buffer) \cup Seqs(liqEvents)
                 \cup UNION {Seqs(flushBatch[f]) : f \in Flushers})
    /\ []((\A f \in Flushers : flushPc[f] # "insert")
             => 1..accepted \subseteq Seqs(buffer) \cup Seqs(liqEvents))

\* batch inserts have failed MaxFlushFails times, every event the model
\* admits was accepted, and later flushes have persisted all of them
C10_Witness ==
    /\ failedFlushes = MaxFlushFails
    /\ accepted = MaxEvents
    /\ buffer = <<>>
    /\ \A f \in Flushers : flushPc[f] # "insert"
    /\ Seqs(liqEvents) = 1..MaxEvents

----------------------------------------------------------------------------
(* Claims about the engine, checked under Spec                             *)

\* the subscription a trace is kept for
SubOf(id) == cfg.subs[CHOOSE k \in DOMAIN cfg.subs : cfg.subs[k].id = id]

\* the evaluations of one metric for one subscription, in cycle order
EntriesOf(id, m) == SelectSeq(trace[id], LAMBDA e : e.m = m)

MetricNames == {MetricOrder[i] : i \in DOMAIN MetricOrder}

\* C1: for every value-alert subscription and metric, in every run of
\* consecutive evaluations that find the condition true exactly one
\* notification is sent (at the first of them) and the dedup key is recorded
\* after each of them.
C1_OncePerEdge ==
    \A id \in DOMAIN trace : \A m \in MetricNames :
        IsValueRule(SubOf(id)) =>
            LET es == EntriesOf(id, m)
            IN  \A i \in DOMAIN es :
                    es[i].cond = "true" =>
                        /\ es[i].after
                        /\ es[i].sent <=> (i = 1 \/ es[i - 1].cond # "true")

\* the values and the notifications of the re-arm scenario
ScenarioValues == <<490000, 510000, 510000, 480000, 520000>>

ScenarioSent == <<FALSE, TRUE, FALSE, FALSE, TRUE>>

\* C2: a "higher" alert with threshold 50000 polled at 49000, 51000, 51000,
\* 48000, 52000 notifies in the 2nd and 5th cycle only; and for every
\* value-alert subscription an evaluation that finds the condition false
\* leaves the key cleared, and the next evaluation that finds it true sends.
C2_Rearm ==
    /\ \A id \in DOMAIN trace :
          LET es == trace[id]
              sub == SubOf(id)
          IN  (/\ sub.Direction = "higher"
               /\ sub.ThresholdValue = 500000
               /\ [i \in DOMAIN es |-> es[i].val] = ScenarioValues)
              => [i \in DOMAIN es |-> es[i].sent] = ScenarioSent
    /\ \A id \in DOMAIN trace : \A m \in MetricNames :
          IsValueRule(SubOf(id)) =>
              LET es == EntriesOf(id, m)
              IN  \A i \in DOMAIN es :
                     /\ es[i].cond = "false" => ~es[i].after
                     /\ (i > 1 /\ es[i - 1].cond = "false"
                         /\ es[i].cond = "true") => es[i].sent

\* the subscription is evaluated by the percentage branch of pollAll
IsMetricRule(sub) == sub.event[2] = "metric_alert" /\ ~IsValueRule(sub)

\* C3: for every percentage subscription and metric: an evaluation that
\* finds the change at or above the threshold with the key not recorded sends
\* and records the key; a directly following evaluation that still finds it
\* at or above the threshold sends nothing and leaves the key recorded; an
\* evaluation that finds it below the threshold leaves the key cleared.
C3_PercentEdge ==
    \A id \in DOMAIN trace : \A m \in MetricNames :
        IsMetricRule(SubOf(id)) =>
            LET es == EntriesOf(id, m)
            IN  \A i \in DOMAIN es :
                   /\ (es[i].cond = "true" /\ ~es[i].before)
                          => (es[i].sent /\ es[i].after)
                   /\ (i > 1 /\ es[i - 1].cond = "true" /\ es[i].cond = "true")
                          => (~es[i].sent /\ es[i].after)
                   /\ es[i].cond = "false" => ~es[i].after

\* pollAll is about to evaluate a percentage subscription whose source holds
\* fewer than window+1 snapshots
ShortHistoryNext ==
    /\ eng.pc = "eval"
    /\ ~IsValueRule(Head(eng.queue).sub)
    /\ Len(snapHistory[eng.src]) < Head(eng.queue).sub.WindowMinutes + 1

\* C4: when the history of the source holds fewer than window+1 snapshots,
\* the evaluation of a percentage subscription sends nothing and neither
\* writes nor clears a dedup key: the engine's step changes neither the key
\* set nor the delivered messages and does not go on to send, and every
\* evaluation made with such a history is recorded as skipped.
C4_ShortHistorySkips ==
    /\ [][(ShortHistoryNext /\ eng' # eng) =>
             (/\ redis' = redis
              /\ outbox' = outbox
              /\ eng'.pc # "send")]_vars
    /\ [](\A id \in DOMAIN trace :
             IsMetricRule(SubOf(id)) =>
                 \A i \in DOMAIN trace[id] :
                    trace[id][i].len < SubOf(id).WindowMinutes + 1 =>
                        /\ trace[id][i].cond = "nohist"
                        /\ ~trace[id][i].sent
                        /\ trace[id][i].after = trace[id][i].before)

\* a subscription with window 2 was skipped with two snapshots in the
\* history (one more than a window of 1 needs), after the value had risen by
\* more than its threshold, while another recipient's key was recorded
C4_Witness ==
    \E id \in DOMAIN trace : \E i \in DOMAIN trace[id] :
        /\ IsMetricRule(SubOf(id))
        /\ SubOf(id).WindowMinutes = 2
        /\ trace[id][i].len = 2
        /\ trace[id][i].cond = "nohist"
        /\ snapHistory["altura"][1].tvl = 10
        /\ snapHistory["altura"][2].tvl = 15
        /\ redis # {}

\* C5: among the recipients that never unsubscribed, no recipient is
\* delivered two digests of the same source on the same calendar day.
C5_OneDigestPerDay ==
    \A i, j \in DOMAIN outbox :
        (/\ i < j
         /\ outbox[i].kind = "digest"
         /\ outbox[j].kind = "digest"
         /\ outbox[i].chat = outbox[j].chat
         /\ outbox[i].source = outbox[j].source
         /\ outbox[i].day = outbox[j].day)
        => outbox[i].chat \in unsubbed

\* C6: among the recipients that never unsubscribed, no opportunity of a
\* source is included in two notifications to the same recipient.
C6_OpportunityOnce ==
    \A i, j \in DOMAIN outbox :
        (/\ i < j
         /\ outbox[i].kind \in {"merkl", "turtle"}
         /\ outbox[i].kind = outbox[j].kind
         /\ outbox[i].chat = outbox[j].chat
         /\ outbox[i].items \cap outbox[j].items # {})
        => outbox[i].chat \in unsubbed

----------------------------------------------------------------------------
(* Claims about the shutdown and the reconnect loop of the collector,      *)
(* checked under SpecCollector                                             *)

\* C11: whenever Collector.Run returns with the context cancelled, the step
\* that returns is the end of the shutdown flush (Run never returns after a
\* cancellation without having called flush).
C11_FlushBeforeReturn ==
    [][(runPc # "returned" /\ runPc' = "returned" /\ ctxDone)
           => runPc = "flush"]_vars

\* the delays of the reconnect loop: 2, 4, 8, 16, 32, 60
BackoffSteps == {2, 4, 8, 16, 32, 60}

\* C12: the reconnect delay starts at 2s, every wait that runs out doubles
\* it up to the cap of 60s, nothing else changes it (a successful connection
\* does not reset it), so it never decreases and never exceeds 60s.
C12_BackoffSequence ==
    /\ backoff = 2
    /\ [][/\ backoff' >= backoff
          /\ (runPc = "wait" /\ runPc' = "top")
                => backoff' = IF backoff * 2 > 60 THEN 60 ELSE backoff * 2
          /\ ~(runPc = "wait" /\ runPc' = "top") => backoff' = backoff]_vars
    /\ [](backoff \in BackoffSteps)

\* the loop waits with the capped delay after a connection that delivered
\* events
C12_Witness ==
    /\ runPc = "wait"
    /\ backoff = 60
    /\ accepted > 0

----------------------------------------------------------------------------
(* Claims about the poll cycle, checked under Spec                         *)

\* the step is a fetch that failed or timed out: a source leaves the pending
\* set of the cycle and no history changes
FetchFailedStep ==
    /\ eng.pc = "poll"
    /\ eng'.todo # eng.todo
    /\ snapHistory' = snapHistory

\* the per-source loop of the current cycle is over
PollLoopDone == eng.pc \notin {"start", "poll", "eval", "send"}

\* C13: a fetch that fails or times out takes exactly its own source out of
\* the cycle, leaves every history, the dedup keys and the delivered messages
\* unchanged and evaluates nothing; a fetch that succeeds appends to the
\* history of its source and evaluates the subscribers of that source (the
\* lookup of the subscribers having succeeded); the pending sources are kept
\* while one source is evaluated and the loop ends only when every source
\* has had its one fetch; so after the loop each subscription has been
\* evaluated once per snapshot of its own source, whatever happened to the
\* other sources (in the deployments where no lookup fails and the engine
\* starts with an empty history).
C13_FailedFetchIsolated ==
    /\ [][/\ FetchFailedStep =>
                /\ \E n \in eng.todo : eng'.todo = eng.todo \ {n}
                /\ eng'.pc = "poll"
                /\ trace' = trace
                /\ redis' = redis
                /\ outbox' = outbox
          /\ \A n \in cfg.sources :
                snapHistory'[n] # snapHistory[n] =>
                    /\ eng.pc = "poll"
                    /\ n \in eng.todo
                    /\ eng'.todo = eng.todo \ {n}
                    /\ \/ Len(snapHistory'[n]) = Len(snapHistory[n]) + 1
                       \/ Len(snapHistory[n]) = 60
                    /\ \A o \in cfg.sources \ {n} :
                          snapHistory'[o] = snapHistory[o]
                    /\ (/\ GetSubscribersWithThresholds(<<n, "metric_alert">>)
                              # <<>>
                        /\ n \notin eng'.failed)
                         => (eng'.pc = "eval" /\ eng'.src = n)
          /\ eng.pc \in {"eval", "send"} => eng'.todo = eng.todo
          /\ (eng.pc = "poll" /\ eng'.pc \notin {"poll", "eval"})
                => eng.todo = {}]_vars
    /\ []((PollLoopDone /\ LookupErr = {} /\ "warm" \notin DOMAIN cfg) =>
             \A i \in DOMAIN subs :
                 subs[i].event[2] = "metric_alert" =>
                     LET hist == snapHistory[subs[i].event[1]]
                     IN  (\A k \in DOMAIN hist : DOMAIN hist[k] = DOMAIN hist[1])
                         => Len(trace[subs[i].id]) =
                                IF hist = <<>> THEN 0
                                ELSE Len(hist) * Cardinality(DOMAIN hist[1]))

\* in the first cycle the fetch of altura failed, and neverland was still
\* fetched and its subscriber evaluated and notified
C13_Witness ==
    /\ cfg.name = "two-sources"
    /\ eng.pc = "idle"
    /\ eng.cycle = 1
    /\ snapHistory["altura"] = <<>>
    /\ Len(snapHistory["neverland"]) = 1
    /\ trace[1] = <<>>
    /\ Len(trace[2]) = 1
    /\ trace[2][1].sent

\* C14: the history of a source never holds more than 60 snapshots, and it
\* only ever changes by one append at its end: up to 60 entries the older
\* ones all stay in place, beyond that exactly the oldest one goes and the
\* others keep their order; a failed fetch changes nothing.
C14_BoundedHistory ==
    /\ [][\A n \in cfg.sources :
             snapHistory'[n] # snapHistory[n] =>
                 LET old == snapHistory[n]
                     new == snapHistory'[n]
                 IN  /\ new # <<>>
                     /\ IF Len(old) < 60
                        THEN SubSeq(new, 1, Len(new) - 1) = old
                        ELSE /\ Len(new) = 60
                             /\ SubSeq(new, 1, 59) = Tail(old)]_vars
    /\ [](\A n \in cfg.sources : Len(snapHistory[n]) <= 60)

\* the two oldest of 59 retained snapshots have been evicted, the 60
\* retained ones are the most recent in fetch order
C14_Witness ==
    /\ cfg.name = "long-run"
    /\ Len(snapHistory["altura"]) = 60
    /\ snapHistory["altura"][1].tvl = 3
    /\ snapHistory["altura"][57].tvl = 59
    /\ snapHistory["altura"][58].tvl = 100
    /\ snapHistory["altura"][59].tvl = 200
    /\ snapHistory["altura"][60].tvl = 100

----------------------------------------------------------------------------
(* Claims about the digests, checked under Spec                            *)

\* sendDueReports has called alertFn and it returned an error: the engine
\* leaves the send position without a delivered message
DigestSendFailedStep ==
    /\ eng.pc = "reportSend"
    /\ eng' # eng
    /\ outbox' = outbox

\* a digest of the source was delivered to the chat on the day
DigestDelivered(chatID, name, day) ==
    \E i \in DOMAIN outbox :
        /\ outbox[i].kind = "digest"
        /\ outbox[i].chat = chatID
        /\ outbox[i].source = name
        /\ outbox[i].day = day

\* C15: a failed digest send writes no dedup record and the recipient loop
\* goes on with the next recipient of the batch; a delivered digest records
\* its key when the dedup store is reachable; so, as long as nobody
\* unsubscribes and the store has no outage, the key of today is recorded
\* for exactly the recipients the digest of today was delivered to, and a
\* recipient whose send failed is tried again at the next check.
C15_DigestFailureIsolated ==
    /\ [][/\ DigestSendFailedStep =>
                /\ redis' = redis
                /\ eng' = Advance(eng, "reportChat", "reports")
          /\ (eng.pc = "reportSend" /\ outbox' # outbox) =>
                /\ redisUp => eng.pend[1] \in redis'
                /\ eng' = Advance(eng, "reportChat", "reports")]_vars
    /\ []((unsubbed = {} /\ "outage" \notin DOMAIN cfg) =>
             \A i \in DOMAIN subs :
                 subs[i].event[2] = "daily_report" =>
                     (ReportKey(Today(clock), subs[i].ChatID, subs[i].event[1])
                          \in redis
                      <=> DigestDelivered(subs[i].ChatID, subs[i].event[1],
                                          clock.day)))

\* in one batch the send to chat 123 failed and chat 23 still got its digest
\* and its record; the next check of the same hour delivered to chat 123
C15_Witness ==
    /\ cfg.name = "digest-faults"
    /\ Len(outbox) = 2
    /\ outbox[1].chat = 23
    /\ outbox[1].cycle = 2
    /\ outbox[2].chat = 123
    /\ outbox[2].cycle = 3
    /\ ReportKey(Today(clock), 23, "altura") \in redis
    /\ ReportKey(Today(clock), 123, "altura") \in redis

\* C19: sendDueReports is never left waiting in a FetchDailyReport call
\* that does not return (with the digest of another source still unsent and
\* the next poll cycle never started).
C19_DigestFetchBounded == eng.pc # "reportFetch"

\* C16: the stream reader never gives up: whenever connectAndRead has
\* returned (failed dial or disconnect) and the context is not cancelled,
\* another connection attempt follows unless the context is cancelled first,
\* however many failures came before.
C16_NeverGivesUp ==
    [](runPc = "disconnected" /\ ~ctxDone => <>(runPc = "dial" \/ ctxDone))

\* a connection attempt made after the wait has reached its cap, that is
\* after at least five failures
C16_Witness == runPc = "dial" /\ backoff = reconnectMax /\ ~ctxDone

\* the frames the claim calls valid liquidation messages
ValidLiquidation(m) ==
    /\ m.e = "forceOrder"
    /\ m.S \in {"SELL", "BUY"}
    /\ m.ap > 0 \/ m.p > 0
    /\ m.z > 0 \/ m.q > 0

\* C17: handleMessage appends exactly one event for a valid liquidation
\* message, with side LONG for order side SELL and SHORT for BUY; for an
\* unparseable frame, another event type, another side or a non-positive
\* price or quantity the buffer is unchanged; in both cases the reader stays
\* connected (nothing is raised).
C17_HandleMessage ==
    [][vars' # vars =>
          \A m \in Messages :
             handleMessage(m) =>
                 /\ runPc' = runPc
                 /\ IF ValidLiquidation(m)
                    THEN /\ Len(buffer') = Len(buffer) + 1
                         /\ SubSeq(buffer', 1, Len(buffer)) = buffer
                         /\ buffer'[Len(buffer')].Side =
                                (IF m.S = "SELL" THEN "LONG" ELSE "SHORT")
                    ELSE buffer' = buffer]_vars

\* both a SELL and a BUY order have been accepted and are in the buffer
C17_Witness ==
    /\ \E i \in 1..Len(buffer) : buffer[i].Side = "LONG"
    /\ \E i \in 1..Len(buffer) : buffer[i].Side = "SHORT"

\* the subscription is evaluated by the subscriber loop of
\* checkMaxpainAlerts and passes its coin and direction tests
IsMaxpainRule(sub) ==
    /\ sub.event = <<"general", "maxpain_alert">>
    /\ sub.Coin # <<>>
    /\ sub.Direction \in {"long", "short", "LONG", "SHORT"}

DecisionPcs == {"eval", "maxpain", "merklSub", "turtleSub", "reportChat"}

\* the engine has decided to send and is about to call alertFn
SendPcs == {"send", "maxpainSend", "merklSend", "turtleSend", "reportSend"}

RECURSIVE Fields(_)
Fields(k) ==
    IF k = <<>> THEN << <<>> >>
    ELSE IF Head(k) = ":" THEN << <<>> >> \o Fields(Tail(k))
    ELSE LET rest == Fields(Tail(k))
         IN  << <<Head(k)>> \o rest[1] >> \o Tail(rest)

\* the recipient a dedup key belongs to: the second field of the keys that
\* start with a rule name, the third of a digest key, the first otherwise
KeyChat(k) ==
    LET f == Fields(k)
    IN  IF f[1] \in {<<"maxpain">>, <<"merkl">>, <<"turtle">>, <<"binance">>}
        THEN f[2]
        ELSE IF f[1] = <<"report">> THEN f[3]
        ELSE f[1]

\* C21: when Unsubscribe has removed a subscription of recipient r, no dedup
\* key of r is left in the store.
C21_UnsubscribeResets ==
    [][\A id \in cfg.unsubs :
          Unsubscribe(id) =>
              \A k \in redis' : KeyChat(k) # Itoa(GetSubscriptionChatID(id))]_vars

\* the bucket of a price for bin width b as the claim has it: the multiple
\* of b nearest to the price (of two equally near ones the even multiple)
NearestBin(price, b) ==
    CHOOSE m \in {k * b : k \in 0..20} :
        LET d == IF price >= m THEN price - m ELSE m - price
        IN  2 * d < b \/ (2 * d = b /\ (m \div b) % 2 = 0)

\* the rows of the queried symbol and side inside the queried window
InWindow(side) ==
    {i \in DOMAIN liqEvents :
        /\ liqEvents[i].Symbol = mpResult.symbol
        /\ liqEvents[i].Side = side
        /\ liqEvents[i].EventTime > QueryNow - mpResult.window}

\* what the claim says of the result for one side
MaxPainOf(side, res) ==
    LET rows  == InWindow(side)
        b     == mpResult.binSize
        sumOf(m) == SumUSD({i \in rows : NearestBin(liqEvents[i].Price, b) = m})
    IN  IF rows = {} THEN res = [PriceBin |-> 0, USDTotal |-> 0]
        ELSE /\ \E i \in rows : NearestBin(liqEvents[i].Price, b) = res.PriceBin
             /\ res.USDTotal = sumOf(res.PriceBin)
             /\ \A i \in rows :
                   sumOf(NearestBin(liqEvents[i].Price, b)) <= res.USDTotal

EntriesOfInterval(cache, interval) ==
    [key \in {k \in DOMAIN cache : k[2] = interval} |-> cache[key]]

\* C23: after a refresh of an interval the cache holds, for that interval,
\* exactly the entries the refresh produced and no entry of an earlier
\* refresh (read for the refreshed interval only, which is the least the
\* claim says).
C23_CacheReplaced ==
    [][\A interval \in {"24h", "12h", "48h"} : \A resp \in Responses :
          (entries' = StoreEntries(Produced(interval, resp))) =>
              EntriesOfInterval(entries', interval)
                  = Produced(interval, resp)]_vars

\* C24: Register stores the source under its name, replacing a source
\* registered under that name before and leaving the other names alone;
\* SourceNames returns every registered name exactly once and nothing else.
C24_RegisterAndNames ==
    /\ [][\A src \in SourcesOffered :
             Register(src) =>
                 /\ DOMAIN sources' = DOMAIN sources \cup {src.name}
                 /\ sources'[src.name] = src
                 /\ \A n \in DOMAIN sources \ {src.name} :
                       sources'[n] = sources[n]]_vars
    /\ [][SourceNames =>
             /\ Len(sourceNames') = Cardinality(DOMAIN sources)
             /\ \A n \in DOMAIN sources :
                   Cardinality({i \in DOMAIN sourceNames' :
                                   sourceNames'[i] = n}) = 1]_vars

\* three names are registered, each with the second of its sources, and
\* SourceNames has listed the three
C24_Witness ==
    /\ DOMAIN sources = {"src1", "src2", "src3"}
    /\ \A n \in DOMAIN sources : sources[n].chain = "Chain2"
    /\ Len(sourceNames) = 3

\* C25: once the context is cancelled, Engine.Run, Collector.Run, flushLoop
\* and cleanupLoop each return at some point (every call they make returns),
\* and an Engine.Run that has taken the ctx.Done() case polls no more.
C25_ShutdownTerminates ==
    /\ [](ctxDone => <>(/\ eng.pc = "returned"
                        /\ runPc = "returned"
                        /\ flushPc["ticker"] = "returned"
                        /\ cleanupPc = "returned"))
    /\ [][eng.pc = "returned" => eng' = eng /\ snapHistory' = snapHistory]_vars

\* all four have returned after cancellation, the engine after two more
\* poll cycles, the collector with the last event persisted and the stale
\* row cleaned up
C25_Witness ==
    /\ ctxDone
    /\ eng.pc = "returned" /\ eng.cycle = MaxCycles
    /\ runPc = "returned"
    /\ flushPc["ticker"] = "returned"
    /\ cleanupPc = "returned"
    /\ Seqs(liqEvents) = 1..MaxEvents

\* pollAll is about to evaluate a percentage subscription on a metric that
\* the snapshot window positions back does not carry, or carries as <= 0
NoPrevNext ==
    /\ eng.pc = "eval"
    /\ ~IsValueRule(Head(eng.queue).sub)
    /\ LET w == Head(eng.queue).sub.WindowMinutes
           hist == snapHistory[eng.src]
           m == Head(eng.queue).m
       IN  /\ w >= 1
           /\ Len(hist) > w
           /\ m \notin DOMAIN hist[Len(hist) - w] \/ hist[Len(hist) - w][m] <= 0

\* C26: a percentage rule compares the snapshot just appended with the
\* history entry window positions before it; when that entry does not carry
\* the metric, or carries a value <= 0, the evaluation sends nothing and
\* neither records nor clears the key. Every recorded evaluation agrees with
\* the history it was made on (histories that were never trimmed).
C26_ReferenceAndSkip ==
    /\ [][(NoPrevNext /\ eng' # eng) =>
             (/\ redis' = redis
              /\ outbox' = outbox
              /\ eng'.pc # "send")]_vars
    /\ [](\A id \in DOMAIN trace :
             LET sub == SubOf(id)
                 hist == snapHistory[sub.event[1]]
             IN  (IsMetricRule(sub) /\ Len(hist) < maxHistoryLen) =>
                   \A i \in DOMAIN trace[id] :
                      LET e == trace[id][i]
                      IN  e.len > sub.WindowMinutes =>
                            LET past == hist[e.len - sub.WindowMinutes]
                            IN  IF e.m \notin DOMAIN past \/ past[e.m] <= 0
                                THEN /\ e.cond = "noprev"
                                     /\ ~e.sent
                                     /\ e.after = e.before
                                ELSE e.cond =
                                       IF ChangeTriggered(sub, past[e.m], e.val)
                                       THEN "true" ELSE "false")

\* a rule over two cycles sent and recorded the key of top_apr (5 two cycles
\* back, 4 now), and in the next cycle, the snapshot two cycles back having
\* no top_apr, it was skipped with the key still recorded
C26_Witness ==
    /\ cfg.name = "metric-gaps"
    /\ \E i \in DOMAIN trace[1] :
          /\ trace[1][i].m = "top_apr"
          /\ trace[1][i].cond = "noprev"
          /\ trace[1][i].before
          /\ trace[1][i].after
          /\ \E j \in 1..(i - 1) : trace[1][j].m = "top_apr" /\ trace[1][j].sent

C28_LookupFailureIsolated ==
    /\ [][\A name \in cfg.sources :
             (name \in eng'.failed /\ name \notin eng.failed) =>
                /\ Len(snapHistory[name]) < maxHistoryLen =>
                      /\ Len(snapHistory'[name]) = Len(snapHistory[name]) + 1
                      /\ SubSeq(snapHistory'[name], 1, Len(snapHistory[name]))
                             = snapHistory[name]
                      /\ \E got \in cfg.fetch[name] :
                             snapHistory'[name][Len(snapHistory'[name])]
                                = got.snap
                /\ redis' = redis
                /\ outbox' = outbox
                /\ trace' = trace
                /\ eng'.pc = "poll"
                /\ eng'.todo = eng.todo \ {name}]_vars
    /\ [](eng.pc \in {"eval", "send"} => eng.src \notin eng.failed)
    /\ [](\A i \in DOMAIN outbox :
             (outbox[i].kind \in {"value", "metric"}
                 /\ outbox[i].cycle = eng.cycle)
             => outbox[i].source \notin eng.failed)
    /\ [][(eng.pc = "poll" /\ eng'.pc \in {"maxpain", "merkl"})
             => eng.todo = {}]_vars

\* in the first cycle the lookup failed for altura: its snapshot is in the
\* history and its alert, though due, was not sent; neverland was polled
\* and its alert delivered, and the engine is in the cross-cutting rules
C28_Witness ==
    /\ cfg.name = "lookup-faults"
    /\ eng.cycle = 1
    /\ eng.failed = {"altura"}
    /\ eng.pc = "binance"
    /\ Len(snapHistory["altura"]) = 1
    /\ Len(snapHistory["neverland"]) = 1
    /\ Len(outbox) = 1
    /\ outbox[1].source = "neverland"
    /\ redis = {ValueKey(cfg.subs[2], "neverland", "tvl")}

\* max-pain proximity, Merkl, Turtle, Binance price: the order of pollAll
CrossCutting == <<"maxpain", "merkl", "turtle", "binance">>

\* C29: in every poll cycle the four cross-cutting rules are each called
\* once, in the order of pollAll, and only after the per-source loop has
\* gone through every source, whether or not the fetches of the cycle
\* succeeded: none has been called while the loop runs, the first is called
\* with no source left, the calls made so far are always a prefix of the
\* four, and pollAll ends with all four made.
C29_CrossCuttingOncePerCycle ==
    /\ [](eng.pc \in {"poll", "eval", "send"} => eng.ran = <<>>)
    /\ [][(eng.ran = <<>> /\ eng'.ran # <<>>) =>
             (eng.pc = "poll" /\ eng.todo = {} /\ eng'.cycle = eng.cycle)]_vars
    /\ [](Len(eng.ran) <= Len(CrossCutting)
             /\ eng.ran = SubSeq(CrossCutting, 1, Len(eng.ran)))
    /\ [][Len(eng'.ran) <= Len(eng.ran) + 1]_vars
    /\ [][(eng.pc \notin {"reports", "reportChat", "reportSend",
                          "reportFetch", "idle", "returned", "start"}
             /\ eng'.pc \in {"reports", "idle"})
             => eng'.ran = CrossCutting]_vars
    /\ [](eng.pc \in {"reports", "reportChat", "reportSend", "reportFetch"}
             => eng.ran = CrossCutting)

\* the first cycle is over: both fetches failed, all four rules were called
\* and the max-pain rule delivered its alert
C29_Witness ==
    /\ cfg.name = "cross-cut"
    /\ eng.cycle = 1
    /\ eng.pc = "idle"
    /\ eng.ran = CrossCutting
    /\ \A n \in cfg.sources : snapHistory[n] = <<>>
    /\ Len(outbox) = 1
    /\ outbox[1].kind = "maxpain"
    /\ outbox[1].cycle = 1

\* the reader is waiting out its backoff or sits in conn.Read
ReaderIdle == runPc \in {"wait", "connected"}

\* C30: reader, flush ticker and cleanup ticker do not depend on each other.
\* Whatever the reader does (waiting out its backoff, blocked in a read) a
\* flush tick can take the buffer, its insert can commit the batch, and a
\* cleanup tick can run and finish; whatever the tickers do the reader can
\* leave its wait; and no step of a flush or a cleanup, failed or not,
\* moves the reader or the other ticker.
C30_LoopsIndependent ==
    /\ []((ReaderIdle /\ flushPc["ticker"] = "wait") => ENABLED FlushTick)
    /\ []((ReaderIdle /\ flushPc["ticker"] = "insert" /\ ~ctxDone)
             => ENABLED FlushInsertOk("ticker"))
    /\ []((ReaderIdle /\ flushPc["ticker"] = "return")
             => ENABLED FlushReturn("ticker"))
    /\ []((ReaderIdle /\ cleanupPc = "wait") => ENABLED CleanupTick)
    /\ []((ReaderIdle /\ cleanupPc = "cleanup") => ENABLED CleanupDone)
    /\ [](runPc = "wait" => ENABLED RunBackoff)
    /\ [][flushPc'["ticker"] # flushPc["ticker"] =>
             (runPc' = runPc /\ backoff' = backoff /\ cleanupPc' = cleanupPc)]_vars
    /\ [][FlushFailedStep("ticker") =>
             (flushPc'["ticker"] = "return" /\ runPc' = runPc
                 /\ cleanupPc' = cleanupPc)]_vars
    /\ [][cleanupPc' # cleanupPc =>
             (/\ runPc' = runPc /\ backoff' = backoff
              /\ flushPc' = flushPc /\ buffer' = buffer
              /\ flushBatch' = flushBatch
              /\ (cleanupPc = "cleanup" => cleanupPc' = "wait"))]_vars

\* the reader waits out its backoff with nothing left in the buffer: every
\* event of the run is persisted, the stale row has been cleaned up, inserts
\* have failed MaxFlushFails times, both tickers wait for their next tick
C30_Witness ==
    /\ ~ctxDone
    /\ runPc = "wait"
    /\ buffer = <<>>
    /\ Seqs(liqEvents) = 1..MaxEvents
    /\ failedFlushes = MaxFlushFails
    /\ flushPc["ticker"] = "wait"
    /\ cleanupPc = "wait"

\* C31: neither mutex is held across a blocking call. The goroutine of
\* pollAll is inside Engine.mu only for the append and for the read of the
\* history, not while it fetches, looks up subscribers or runs the rules;
\* flush is inside Collector.mu only for its two critical sections, not
\* during InsertLiquidationEvents; so while a batch write is in flight and
\* the reader is connected, handleMessage can take the lock and append.
C31_NoLockAcrossCalls ==
    /\ [](eng.pc \notin {"append", "read"}
             => "pollAll" \notin mu.engine.w \cup mu.engine.r)
    /\ [](flushPc["ticker"] \notin {"take", "prepend"}
             => "ticker" \notin mu.collector.w)
    /\ [](runPc # "append" => "reader" \notin mu.collector.w)
    /\ []((flushPc["ticker"] = "insert" /\ runPc = "connected"
              /\ accepted < MaxEvents) => ENABLED MuHandleLock)
    /\ [](Cardinality(mu.collector.w) <= 1 /\ Cardinality(mu.engine.w) <= 1
             /\ (mu.engine.w # {} => mu.engine.r = {}))

\* a batch write is in flight while handleMessage is inside the lock with
\* the next event, and the rules of the engine run while GetSnapshot reads
C31_Witness ==
    /\ flushPc["ticker"] = "insert"
    /\ flushBatch["ticker"] # <<>>
    /\ runPc = "append"
    /\ mu.collector.w = {"reader"}
    /\ eng.pc = "rules"
    /\ mu.engine.r = {"GetSnapshot"}

\* C32: under every interleaving of handleMessage, the ticker's flush and
\* the flush of the shutdown path, the buffer holds its events in arrival
\* order (their sequence numbers increase from head to tail).
C32_BufferInArrivalOrder ==
    \A i \in 1..(Len(buffer) - 1) : buffer[i].seq < buffer[i + 1].seq

\* C33: with flush ticks that keep occurring and a store that ends up
\* accepting inserts, every event accepted by handleMessage is eventually in
\* the durable store, unless the run is cancelled.
C33_EventuallyPersisted ==
    \A i \in 1..MaxEvents :
        (accepted >= i) ~> (i \in Seqs(liqEvents) \/ ctxDone)

\* every event of the run is persisted although an insert had failed, and
\* the run was never cancelled
C33_Witness ==
    /\ ~ctxDone
    /\ failedFlushes >= 1
    /\ accepted = MaxEvents
    /\ Seqs(liqEvents) = 1..MaxEvents
    /\ buffer = <<>>

\* how many times the event with sequence number i occurs in evs
Occurs(evs, i) == Cardinality({k \in DOMAIN evs : evs[k].seq = i})

\* C34: with batch inserts that commit all of a batch or none of it, every
\* event accepted by handleMessage is at every moment in exactly one place,
\* once: the live buffer, the batch of a flush in flight, or the store; and
\* nothing else is in any of them. Arrivals, the ticker's flush, the
\* shutdown flush and failed inserts interleave freely.
C34_EventConservation ==
    /\ \A i \in 1..accepted :
          Occurs(buffer, i) + Occurs(liqEvents, i)
              + Occurs(flushBatch["ticker"], i) + Occurs(flushBatch["run"], i) = 1
    /\ Seqs(buffer) \cup Seqs(liqEvents) \cup Seqs(flushBatch["ticker"])
           \cup Seqs(flushBatch["run"]) \subseteq 1..accepted

\* one event in each of the four places: persisted, in the batch of the
\* ticker's flush, in the batch of the shutdown flush, in the live buffer
\* after an insert had failed
C34_Witness ==
    /\ failedFlushes >= 1
    /\ liqEvents # <<>>
    /\ flushPc["ticker"] = "insert"
    /\ flushPc["run"] = "insert"
    /\ flushBatch["ticker"] # <<>>
    /\ flushBatch["run"] # <<>>

\* the recipient of subscription id holds another subscription to the same
\* source event with the same direction
HasSibling(id) ==
    \E k \in DOMAIN cfg.subs :
        /\ cfg.subs[k].id # id
        /\ cfg.subs[k].ChatID = SubOf(id).ChatID
        /\ cfg.subs[k].event = SubOf(id).event
        /\ cfg.subs[k].Direction = SubOf(id).Direction
        /\ IsValueRule(cfg.subs[k]) <=> IsValueRule(SubOf(id))

\* C35: a threshold or percentage subscription whose recipient holds a
\* second subscription to the same source event and direction is still
\* edge-triggered on its own: with the dedup store reachable, every send
\* delivered and nobody unsubscribing, an evaluation that finds its
\* condition true sends if it is the first one or follows one that found it
\* false, and sends nothing if it follows one that found it true.
C35_EdgePerSubscription ==
    ("outage" \notin DOMAIN cfg /\ unsubbed = {}) =>
        \A id \in DOMAIN trace : \A m \in MetricNames :
            (HasSibling(id) /\ SubOf(id).event[2] = "metric_alert") =>
                LET es == EntriesOf(id, m)
                IN  \A i \in DOMAIN es :
                       es[i].cond = "true" =>
                          /\ (i = 1 \/ es[i - 1].cond = "false") => es[i].sent
                          /\ (i > 1 /\ es[i - 1].cond = "true") => ~es[i].sent

\* C36: Unsubscribe of a subscription owned by one recipient leaves every
\* dedup key of every other recipient recorded: the keys of a chat whose
\* decimal id ends in the unsubscribing chat's id, and the digest keys
\* report:<date>:<id>:<source>, included.
C36_UnsubscribeLeavesOthers ==
    [][\A id \in cfg.unsubs :
          Unsubscribe(id) =>
              \A k \in redis :
                  KeyChat(k) # Itoa(GetSubscriptionChatID(id)) => k \in redis']_vars

\* C37: the dedup key of an alert rule (every key but a digest's) is recorded
\* only if a notification was delivered to the recipient of the key; a send
\* that fails leaves the key unrecorded.
C37_KeyOnlyIfDelivered ==
    \A k \in redis :
        Fields(k)[1] # <<"report">> =>
            \E i \in DOMAIN outbox : Itoa(outbox[i].chat) = KeyChat(k)

\* C38: where the dedup store may become unreachable at any moment (between
\* AlreadySent and Record included) and nobody unsubscribes, a rule that has
\* notified for a condition does not notify again in the next evaluation
\* that still finds the condition true, and no recipient gets the digest of
\* one source and day twice.
C38_AtMostOnceAcrossOutage ==
    ("outage" \in DOMAIN cfg /\ unsubbed = {}) =>
        /\ \A id \in DOMAIN trace : \A m \in MetricNames :
              LET es == EntriesOf(id, m)
              IN  \A i \in DOMAIN es :
                     (i > 1 /\ es[i - 1].cond = "true" /\ es[i - 1].sent
                        /\ es[i].cond = "true") => ~es[i].sent
        /\ \A i, j \in DOMAIN outbox :
              (/\ i < j
               /\ outbox[i].kind = "digest"
               /\ outbox[j].kind = "digest"
               /\ outbox[i].chat = outbox[j].chat
               /\ outbox[i].source = outbox[j].source)
              => outbox[i].day # outbox[j].day

\* C39: a reset observed during an outage is not lost: when pollAll, with
\* the dedup store reachable, evaluates a rule whose condition is true and
\* whose previous evaluation found it false (whether or not the store was
\* reachable then), it goes on to send the notification.
C39_ResetNotLost ==
    [][(/\ "outage" \in DOMAIN cfg
        /\ unsubbed = {}
        /\ redisUp
        /\ eng.pc = "eval"
        /\ eng' # eng) =>
           LET item == Head(eng.queue)
               out  == RuleOutcome(item.sub, eng.src, snapHistory[eng.src],
                                   item.m)
               es   == EntriesOf(item.sub.id, item.m)
           IN  (/\ out.cond = "true"
                /\ es # <<>>
                /\ es[Len(es)].cond = "false") => eng'.pc = "send"]_vars

\* snapshots of its source taken before the first evaluation in trace
PolledBefore == IF "warm" \in DOMAIN cfg THEN Len(cfg.warm) ELSE 0

\* C40: a percentage subscription of any window the API accepts, 60 and
\* more included, comes to be evaluated once its source has been polled
\* successfully more often than the window is long: from then on no
\* evaluation is skipped for lack of history, so a change at or above the
\* threshold can notify (every successful poll is followed by the
\* subscriber lookup succeeding).
C40_EveryWindowEvaluated ==
    LookupErr = {} =>
        \A id \in DOMAIN trace : \A m \in MetricNames :
            IsMetricRule(SubOf(id)) =>
                LET es == EntriesOf(id, m)
                IN  \A i \in DOMAIN es :
                       PolledBefore + i > SubOf(id).WindowMinutes
                           => es[i].cond # "nohist"

====
